---- MODULE Spec2Model ----
(***************************************************************************)
(* A model of omero-isa: the ISA-JSON importer                              *)
(* (isa_investigation_importer.py), the ROI decoder (roi.py) and the        *)
(* annotation encoder (isa_mapping.py).                                     *)
(*                                                                          *)
(* JSON documents are modelled as tagged values, the OMERO database as the  *)
(* sequence of rows persisted so far (a row's id is its position), and      *)
(* every Python exception as the name of its class.                         *)
(***************************************************************************)
EXTENDS Integers, Sequences, FiniteSets, TLC

VARIABLES
    data,           \* the JSON value handed to the operation under study
    project_name,   \* the project_name argument of the importer, a string or null
    importer,       \* the fields __init__ and save() set on the importer
    assay,          \* DatasetFactory.data of the running DatasetFactory
    parent_object,  \* the parent_object argument of the running save()
    target_image,   \* the image argument of a stand-alone import_rois_from_json
    ome_project,    \* AbstractIsaMapper.obj: the project being mapped
    isa_attributes, \* AbstractIsaMapper.isa_attributes
    pc,             \* call stack of the running operation, innermost frame first
    err,            \* class name of the exception that ended it, "" when none
    db,             \* rows persisted through the update service, in order
    calls,          \* calls made so far to decoders and collaborators, in order
    project,        \* IsaInvestigationImporter.save: local variable project
    dataset,        \* DatasetFactory.save: local variable dataset
    i,              \* index of the next fragment of the running annotation pass
    j,              \* index of the next assay in _add_datasets
    k,              \* index of the next data file in _add_images
    investigation   \* IsaPacker.pack: the investigation written last, as JSON

vars == <<data, project_name, importer, assay, parent_object, target_image, ome_project,
          isa_attributes, pc, err, db, calls,
          project, dataset, i, j, k, investigation>>

(***************************************************************************)
(* Bounds of the model.                                                     *)
(***************************************************************************)
MaxFrags == 2    \* longest list of extra fragments in a generated document
MaxAssays == 2   \* most assays in a generated study
MaxFiles == 2    \* most data files in a generated assay
MaxRois == 2     \* most ROI entries in a generated ROI file
MaxShapes == 2   \* most shapes in a generated ROI entry
MaxAnnotations == 2  \* most map annotations stored on a mapped object

(***************************************************************************)
(* JSON values as json.load() returns them.                                 *)
(***************************************************************************)
JNull == [t |-> "null", s |-> "", n |-> 0, items |-> <<>>, kv |-> <<>>]
JStr(x) == [t |-> "str", s |-> x, n |-> 0, items |-> <<>>, kv |-> <<>>]
JNum(x) == [t |-> "num", s |-> "", n |-> x, items |-> <<>>, kv |-> <<>>]
JList(xs) == [t |-> "list", s |-> "", n |-> 0, items |-> xs, kv |-> <<>>]
JDict(pairs) == [t |-> "dict", s |-> "", n |-> 0, items |-> <<>>, kv |-> pairs]
KV(key, v) == [k |-> key, v |-> v]

\* Python: key in d.keys()
HasKey(d, key) == \E x \in 1..Len(d.kv) : d.kv[x].k = key
\* Python: d[key]
Item(d, key) == d.kv[CHOOSE x \in 1..Len(d.kv) : d.kv[x].k = key].v
\* Python: d.get(key, default)
Get(d, key, default) == IF HasKey(d, key) THEN Item(d, key) ELSE default
\* Python: v is None
IsNone(v) == v.t = "null"
\* Python: not v   (falsy: None, "", 0, [] and {})
Falsy(v) ==
    \/ v.t = "null"
    \/ v.t = "str" /\ v.s = ""
    \/ v.t = "num" /\ v.n = 0
    \/ v.t = "list" /\ v.items = <<>>
    \/ v.t = "dict" /\ v.kv = <<>>
\* Python: str(v)
PyStr(v) ==
    CASE v.t = "null" -> "None"
      [] v.t = "str" -> v.s
      [] v.t = "num" -> ToString(v.n)
      [] v.t = "list" -> "[...]"
      [] OTHER -> "{...}"

Comment(name, value) == JDict(<<KV("name", JStr(name)), KV("value", value)>>)

(***************************************************************************)
(* The database: omero model objects and the update service.               *)
(***************************************************************************)
NoId == 0   \* obj.id is None: the object was never saved

\* A freshly constructed omero.model object (ProjectI(), DatasetI(), ...).
NewObj(type) ==
    [type |-> type, id |-> NoId, name |-> "", desc |-> "", ns |-> "",
     map |-> <<>>, parent |-> NoId, child |-> NoId, image |-> NoId,
     shapes |-> <<>>]

\* No object: Python None where an omero object is expected.
NoObj == NewObj("None")

\* conn.getUpdateService().saveAndReturnObject(obj): the server stores a copy
\* and returns it with its id; the caller's object keeps id None.
Persist(rows, obj) == Append(rows, [obj EXCEPT !.id = Len(rows) + 1])
Saved(rows) == rows[Len(rows)]

\* The link classes of omero.model that getattr(model, ...) can find.
ModelLinkTypes ==
    {"ProjectDatasetLink", "DatasetImageLink", "ProjectAnnotationLink",
     "DatasetAnnotationLink", "ImageAnnotationLink", "RoiAnnotationLink"}

\* isinstance(obj, omero.model.Annotation)
IsAnnotation(obj) == obj.type \in {"MapAnnotation"}

\* link(obj1, obj2, conn): an object whose id is None is attached whole to
\* the link, so saving the link saves it too, as a new row; an object with an
\* id is attached by proxy.
link(rows, obj1, obj2) ==
    LET otype1 == obj1.type
        otype2 == IF IsAnnotation(obj2) THEN "Annotation" ELSE obj2.type
        linktype == otype1 \o otype2 \o "Link"
        rows1 == IF obj1.id = NoId THEN Persist(rows, obj1) ELSE rows
        pid == IF obj1.id = NoId THEN Len(rows1) ELSE obj1.id
        rows2 == IF obj2.id = NoId THEN Persist(rows1, obj2) ELSE rows1
        cid == IF obj2.id = NoId THEN Len(rows2) ELSE obj2.id
        lnk == [NewObj("Link") EXCEPT !.name = linktype, !.parent = pid,
                                       !.child = cid]
    IN  IF linktype \notin ModelLinkTypes
        THEN [exc |-> "AssertionError", db |-> rows]
        ELSE [exc |-> "", db |-> Persist(rows2, lnk)]

(***************************************************************************)
(* MappedAnnotationFactory: annotation decode.                              *)
(***************************************************************************)
ontology_annotation_keys == {"termAccession", "termSource", "annotationValue"}

\* Python: mapping[key] = v on an insertion-ordered dict
SetKey(m, key, v) ==
    IF \E x \in 1..Len(m) : m[x].k = key
    THEN [x \in 1..Len(m) |-> IF m[x].k = key THEN KV(key, v) ELSE m[x]]
    ELSE Append(m, KV(key, v))

\* A variant of the loop that copies every field that is not a mapping,
\* lists included.
RECURSIVE MappingFromLists(_, _, _)
MappingFromLists(kv, x, m) ==
    IF x > Len(kv) THEN m
    ELSE LET key == kv[x].k
             v == kv[x].v
             m1 == IF v.t # "dict" THEN SetKey(m, key, v) ELSE m
             m2 == IF v.t = "dict"
                      /\ \A o \in ontology_annotation_keys : HasKey(v, o)
                   THEN SetKey(SetKey(SetKey(m1,
                            key \o "_term", Item(v, "annotationValue")),
                            key \o "_term_accession", Item(v, "termAccession")),
                            key \o "_term_source", Item(v, "termSource"))
                   ELSE m1
         IN  MappingFromLists(kv, x + 1, m2)

\* The loop over data.items() that fills mapping.
RECURSIVE MappingFrom(_, _, _)
MappingFrom(kv, x, m) ==
    IF x > Len(kv) THEN m
    ELSE LET key == kv[x].k
             v == kv[x].v
             m1 == IF v.t \notin {"list", "dict"} THEN SetKey(m, key, v) ELSE m
             m2 == IF v.t = "dict"
                      /\ \A o \in ontology_annotation_keys : HasKey(v, o)
                   THEN SetKey(SetKey(SetKey(m1,
                            key \o "_term", Item(v, "annotationValue")),
                            key \o "_term_accession", Item(v, "termAccession")),
                            key \o "_term_source", Item(v, "termSource"))
                   ELSE m1
         IN  MappingFrom(kv, x + 1, m2)

\* _create_mapped_annotation: NamedValue(str(key), str(value)) for each key.
CreateMappedAnnotation(namespace, mapping) ==
    [NewObj("MapAnnotation") EXCEPT
        !.ns = namespace,
        !.map = [x \in 1..Len(mapping) |->
                    [k |-> mapping[x].k, v |-> PyStr(mapping[x].v)]]]

Raise(exc) == [exc |-> exc, map_annotation |-> NoObj]

\* The exception the assertions of __init__ raise on d, "" when they pass.
AnchorCheck(d) ==
    IF d.t # "dict" THEN "AssertionError"
    ELSE IF ~HasKey(d, "comments") THEN "AssertionError"
    ELSE LET comments == Item(d, "comments") IN
        IF comments.t \in {"null", "num"} THEN "TypeError"
        ELSE IF comments.t = "str"
             THEN (IF comments.s = "" THEN "AssertionError" ELSE "AttributeError")
        ELSE IF comments.t = "dict"
             THEN (IF comments.kv = <<>> THEN "AssertionError" ELSE "KeyError")
        ELSE IF ~(Len(comments.items) >= 1) THEN "AssertionError"
        ELSE LET c == comments.items[1] IN
            IF c.t # "dict" THEN "AttributeError"
            ELSE IF IsNone(Get(c, "name", JNull)) THEN "AssertionError"
            ELSE IF IsNone(Get(c, "value", JNull)) THEN "AssertionError"
            ELSE IF Item(c, "name") # JStr("omero_annotation_namespace")
                 THEN "AssertionError"
            ELSE ""

\* MappedAnnotationFactory(d): the constructed factory, or the exception.
MappedAnnotationFactory(d) ==
    IF AnchorCheck(d) # "" THEN Raise(AnchorCheck(d))
    ELSE [exc |-> "",
          map_annotation |->
              CreateMappedAnnotation(
                  PyStr(Item(Item(d, "comments").items[1], "value")),
                  MappingFrom(d.kv, 1, <<>>))]

\* MappedAnnotationFactory.save(conn, parent_object): the annotation is saved,
\* then the factory's own, still id-less object is linked to the parent.
MafSave(rows, maf, parent) ==
    LET rows1 == Persist(rows, maf.map_annotation)
    IN  IF parent # NoObj
        THEN link(rows1, parent, maf.map_annotation)
        ELSE [exc |-> "", db |-> rows1]

\* try: MappedAnnotationFactory(d).save(conn, parent)   as one call
DecodeAndSave(rows, d, parent) ==
    LET maf == MappedAnnotationFactory(d)
    IN  IF maf.exc # "" THEN [exc |-> maf.exc, db |-> rows]
        ELSE MafSave(rows, maf, parent)

(***************************************************************************)
(* roi.py: import_rois_from_json.                                           *)
(***************************************************************************)
\* The geometry fields each known shape type reads with shape_info[...].
GeometryKeys(shape_type) ==
    CASE shape_type = "PolygonI" -> {"points"}
      [] shape_type = "RectangleI" -> {"x", "y", "width", "height"}
      [] shape_type = "EllipseI" -> {"x", "y", "radiusX", "radiusY"}
      [] shape_type = "LineI" -> {"x1", "y1", "x2", "y2"}
      [] shape_type = "PointI" -> {"x", "y"}
      [] shape_type = "LabelI" -> {"x", "y", "text"}
      [] OTHER -> {}

KnownShapeTypes ==
    {"PolygonI", "RectangleI", "EllipseI", "LineI", "PointI", "LabelI"}

\* rint(shape_info[key] or 0)
PlaneCoordinate(shape_info, key) ==
    IF Falsy(Item(shape_info, key)) THEN 0 ELSE Item(shape_info, key).n

\* The loop over roi_data["shapes"]: the shapes added to the ROI so far, or
\* the exception a missing key raises.
RECURSIVE AddShapes(_, _, _)
AddShapes(shape_list, x, added) ==
    IF x > Len(shape_list) THEN [exc |-> "", shapes |-> added]
    ELSE LET shape_info == shape_list[x] IN
        IF \E key \in {"type", "z", "t", "c"} : ~HasKey(shape_info, key)
        THEN [exc |-> "KeyError", shapes |-> added]
        ELSE LET shape_type == PyStr(Item(shape_info, "type")) IN
            IF shape_type \notin KnownShapeTypes
            THEN AddShapes(shape_list, x + 1, added)
            ELSE IF \E key \in GeometryKeys(shape_type) : ~HasKey(shape_info, key)
            THEN [exc |-> "KeyError", shapes |-> added]
            ELSE AddShapes(shape_list, x + 1,
                    Append(added, [type |-> shape_type,
                                   z |-> PlaneCoordinate(shape_info, "z"),
                                   t |-> PlaneCoordinate(shape_info, "t"),
                                   c |-> PlaneCoordinate(shape_info, "c")]))

\* The body of the loop over roi_data_list for entry x, up to the return
\* statement that ends it: the ROI of entry x is saved and returned.
RoiLoop(rows, roi_data_list, x, image) ==
    IF x > Len(roi_data_list) THEN [exc |-> "", db |-> rows]
    ELSE IF image = NoObj THEN [exc |-> "AttributeError", db |-> rows]
    ELSE IF ~HasKey(roi_data_list[x], "shapes") THEN [exc |-> "KeyError", db |-> rows]
    ELSE LET built == AddShapes(Item(roi_data_list[x], "shapes").items, 1, <<>>)
             roi == [NewObj("Roi") EXCEPT !.image = image.id,
                                          !.shapes = built.shapes]
         IN  IF built.exc # "" THEN [exc |-> built.exc, db |-> rows]
             ELSE [exc |-> "", db |-> Persist(rows, roi)]

\* import_rois_from_json(json_path, image, conn) on the parsed file content.
import_rois_from_json(rows, roi_data_list, image) ==
    RoiLoop(rows, roi_data_list.items, 1, image)

(***************************************************************************)
(* The files of the ARC directory the importer reads (test fixture).        *)
(***************************************************************************)
\* Image files that exist below the ARC root.
ExistingFiles == {"assays/a1/dataset/img.tif", "assays/a1/dataset/img2.tif"}

PointShape(z) ==
    JDict(<<KV("type", JStr("PointI")), KV("z", z), KV("t", JNum(0)),
            KV("c", JNum(0)), KV("x", JNum(1)), KV("y", JNum(2))>>)
RoiEntry(roi_id, shape_list) ==
    JDict(<<KV("roi_id", JNum(roi_id)), KV("shapes", JList(shape_list))>>)

\* ROI files that exist next to the image files, with their parsed content.
RoiFileNames == {"img_roidata.json", "img2_roidata.json"}
RoiFileContent(name) ==
    IF name = "img_roidata.json"
    THEN JList([x \in 1..MaxRois |-> RoiEntry(x, <<PointShape(JNum(x))>>)])
    ELSE JList(<<>>)

(***************************************************************************)
(* import_and_tag_image: the upload collaborator.                           *)
(***************************************************************************)
\* A successful "omero import -d <dataset>": the server stores the image and
\* its link to the dataset; conn.getObject("Image", id) is the image row.
import_and_tag_image(rows, dataset_id, name, description) ==
    LET img == [NewObj("Image") EXCEPT !.name = name, !.desc = description]
        rows1 == Persist(rows, img)
        lnk == [NewObj("Link") EXCEPT !.name = "DatasetImageLink",
                    !.parent = dataset_id, !.child = Len(rows1)]
    IN  Persist(rows1, lnk)

(***************************************************************************)
(* The record of calls, kept for stating the claims.                        *)
(***************************************************************************)
\* One call: op is what was called, who the calling pass, arg the index of
\* the fragment or data file among the of ones of the pass, res the id of
\* the object the call was given (NoId for None), exc the exception it
\* raised, at and n the number of rows before and after it.
Event(op, who, arg, of, res, exc, at, n) ==
    [op |-> op, who |-> who, arg |-> arg, of |-> of, res |-> res, exc |-> exc,
     at |-> at, n |-> n]

(***************************************************************************)
(* IsaInvestigationImporter.                                                *)
(***************************************************************************)
study_data(d) == Item(d, "studies").items[1]
assay_data(d) == Get(study_data(d), "assays", JNull)

\* omero.rtypes.rstring(v): None becomes the empty string, others str(v).
rstring(v) == IF IsNone(v) THEN "" ELSE PyStr(v)

\* A variant of the asserts that lets a document with several studies pass.
StudiesCheckAtLeastOne(d) ==
    IF ~HasKey(d, "studies") THEN "AssertionError"
    ELSE IF Len(Item(d, "studies").items) < 1 THEN "AssertionError"
    ELSE ""

\* The asserts of __init__: "" when the document has exactly one study.
StudiesCheck(d) ==
    IF ~HasKey(d, "studies") THEN "AssertionError"
    ELSE IF Len(Item(d, "studies").items) # 1 THEN "AssertionError"
    ELSE ""

\* A variant of the name resolution in which the study title comes first.
ProjectNameTitleFirst(name, study) ==
    Get(study, "title", IF IsNone(name) THEN JStr("no_study_title") ELSE name)

\* save(): the project name and description.
ProjectName(name, study) ==
    IF IsNone(name) THEN Get(study, "title", JStr("no_study_title")) ELSE name
\* A variant of the project description that ignores the study.
ProjectDescriptionEmpty(study) == JStr("")

\* save(): the project description, "" when the study has none.
ProjectDescription(study) == Get(study, "description", JStr(""))

\* for key in d.keys(): each element of a list value, each other value whole.
RECURSIVE TopLevelFragments(_, _)
TopLevelFragments(kv, x) ==
    IF x > Len(kv) THEN <<>>
    ELSE (IF kv[x].v.t = "list" THEN kv[x].v.items ELSE <<kv[x].v>>)
         \o TopLevelFragments(kv, x + 1)

\* for key in study_data.keys(): "assays" is skipped, a mapping is taken
\* whole, a list by element, anything else not at all.
RECURSIVE StudyFragments(_, _)
StudyFragments(kv, x) ==
    IF x > Len(kv) THEN <<>>
    ELSE (IF kv[x].k = "assays" THEN <<>>
          ELSE IF kv[x].v.t = "dict" THEN <<kv[x].v>>
          ELSE IF kv[x].v.t = "list" THEN kv[x].v.items
          ELSE <<>>)
         \o StudyFragments(kv, x + 1)

\* IsaInvestigationImporter._add_mapped_annotations: the fragments it tries.
ProjectFragments(d) ==
    <<d>> \o TopLevelFragments(d.kv, 1) \o StudyFragments(study_data(d).kv, 1)

\* DatasetFactory._add_mapped_annotations: the fragments it tries.
DatasetFragments(a) == <<a>> \o TopLevelFragments(a.kv, 1)

\* A variant of the order in which the datasets come first.
SaveOrderDatasetsFirst == <<"add_datasets", "project_annotations">>

\* save(): what it does, in order, once the project is saved.
SaveOrder == <<"project_annotations", "add_datasets">>
StageAfter(stage) == IF stage = SaveOrder[1] THEN SaveOrder[2] ELSE "done"

\* The importer before __init__ has run.
NoImporter == [project_name |-> JNull]

\* The frame an operation returns to; a stand-alone operation is done.
Return(stack) == IF Len(stack) = 1 THEN <<"done">> ELSE Tail(stack)

\* __init__(data, path_to_arc, project_name)
Construct ==
    /\ pc = <<"new">>
    /\ pc' = IF StudiesCheck(data) = "" THEN <<"constructed">> ELSE <<"failed">>
    /\ err' = StudiesCheck(data)
    /\ importer' = IF StudiesCheck(data) = ""
                   THEN [project_name |-> project_name] ELSE importer
    /\ UNCHANGED <<data, project_name, assay, parent_object, target_image,
                   ome_project, isa_attributes, db, calls, project, dataset, i,
                   j, k, investigation>>

\* save(), up to the project being saved.
SaveProject ==
    /\ pc = <<"constructed">>
    /\ importer' = [importer EXCEPT
                        !.project_name = ProjectName(@, study_data(data))]
    /\ db' = Persist(db,
                [NewObj("Project") EXCEPT
                    !.name = rstring(importer'.project_name),
                    !.desc = rstring(ProjectDescription(study_data(data)))])
    /\ project' = Saved(db')
    /\ i' = 1
    /\ j' = 1
    /\ pc' = <<SaveOrder[1]>>
    /\ UNCHANGED <<data, project_name, assay, parent_object, target_image,
                   ome_project, isa_attributes, err, calls, dataset, k,
                   investigation>>

\* One try block of an annotation pass: fragment x of frags is decoded and
\* saved under parent; AssertionError is swallowed, anything else ends the
\* import. After the last fragment the pass goes on to frame next.
AnnotationStep(who, frags, parent, next) ==
    LET r == DecodeAndSave(db, frags[i], parent) IN
    /\ db' = r.db
    /\ calls' = Append(calls, Event("decode", who, i, Len(frags), parent.id, r.exc,
                                    Len(db), Len(r.db)))
    /\ IF r.exc \in {"", "AssertionError"}
       THEN /\ err' = err
            /\ i' = i + 1
            /\ pc' = IF i = Len(frags) THEN <<next>> \o Tail(pc) ELSE pc
       ELSE /\ err' = r.exc
            /\ i' = i
            /\ pc' = <<"failed">>

\* IsaInvestigationImporter._add_mapped_annotations, one fragment.
AnnotateProject ==
    /\ Head(pc) = "project_annotations"
    /\ AnnotationStep("project", ProjectFragments(data), project,
                      StageAfter("project_annotations"))
    /\ j' = 1
    /\ UNCHANGED <<data, project_name, importer, assay, parent_object,
                   target_image, ome_project, isa_attributes, project, dataset,
                   k, investigation>>

\* _add_datasets: the next assay gets its DatasetFactory, whose save() starts.
NextAssay ==
    /\ Head(pc) = "add_datasets"
    /\ ~IsNone(assay_data(data))
    /\ j <= Len(assay_data(data).items)
    /\ IF assay_data(data).items[j].t = "dict"
       THEN /\ assay' = assay_data(data).items[j]
            /\ parent_object' = project
            /\ pc' = <<"dataset_save">> \o pc
            /\ err' = err
       ELSE /\ pc' = <<"failed">>
            /\ err' = "AssertionError"
            /\ UNCHANGED <<assay, parent_object>>
    /\ j' = j + 1
    /\ UNCHANGED <<data, project_name, importer, target_image, ome_project,
                   isa_attributes, db, calls, project, dataset, i, k,
                   investigation>>

\* save(): no assay is left, the saved project is returned.
ReturnProject ==
    /\ Head(pc) = "add_datasets"
    /\ IsNone(assay_data(data)) \/ j > Len(assay_data(data).items)
    /\ pc' = <<StageAfter("add_datasets")>>
    /\ i' = 1
    /\ UNCHANGED <<data, project_name, importer, assay, parent_object,
                   target_image, ome_project, isa_attributes, err, db, calls,
                   project, dataset, j, k, investigation>>

(***************************************************************************)
(* DatasetFactory and ImageFactory.                                         *)
(***************************************************************************)
\* A variant of the loop in which dataset_name starts as None, so that an
\* assay without identifier comment is saved without a name.
RECURSIVE DatasetNameDefaultNone(_, _)
DatasetNameDefaultNone(comments, x) ==
    IF x > Len(comments) THEN [exc |-> "", name |-> JNull]
    ELSE IF comments[x].t # "dict" THEN [exc |-> "AssertionError", name |-> JNull]
    ELSE IF Get(comments[x], "name", JNull) = JStr("identifier")
         THEN [exc |-> "", name |-> Get(comments[x], "value", JNull)]
    ELSE DatasetNameDefaultNone(comments, x + 1)

\* DatasetFactory.save: the loop that looks for the identifier comment. It
\* stops at the first one; a comment that is no mapping fails the assert,
\* and with no identifier dataset_name is never bound.
RECURSIVE DatasetName(_, _)
DatasetName(comments, x) ==
    IF x > Len(comments) THEN [exc |-> "UnboundLocalError", name |-> JNull]
    ELSE IF comments[x].t # "dict" THEN [exc |-> "AssertionError", name |-> JNull]
    ELSE IF Get(comments[x], "name", JNull) = JStr("identifier")
         THEN [exc |-> "", name |-> Get(comments[x], "value", JNull)]
    ELSE DatasetName(comments, x + 1)

\* DatasetFactory.save, from the comments lookup to the dataset being saved.
DatasetIdentifier(a) ==
    IF IsNone(Get(a, "comments", JNull))
    THEN [exc |-> "AssertionError", name |-> JNull]
    ELSE DatasetName(Item(a, "comments").items, 1)

\* ImageFactory.save: the loop over the comments; the last comment of a name
\* wins, and the default stays when there is none.
RECURSIVE CommentValue(_, _, _, _)
CommentValue(comments, x, name, found) ==
    IF x > Len(comments) THEN found
    ELSE CommentValue(comments, x + 1, name,
            IF Item(comments[x], "name") = JStr(name)
            THEN Item(comments[x], "value") ELSE found)

\* import_rois_from_json as ImageFactory.save calls it, with the call recorded.
\* st is the database and the call record; image is the upload's result.
SaveRois(st, x, roidata_filename, image) ==
    LET r == import_rois_from_json(st.db, RoiFileContent(PyStr(roidata_filename)), image)
    IN  [exc |-> r.exc, db |-> r.db,
         calls |-> Append(st.calls,
                      Event("import_rois", "image", x, 1, image.id, r.exc,
                            Len(st.db), Len(r.db)))]

\* A variant that deletes the uploaded image and its link again when the ROI
\* file is missing.
AfterUploadRollback(st, x, roidata_filename, image) ==
    IF IsNone(roidata_filename) THEN [exc |-> "", db |-> st.db, calls |-> st.calls]
    ELSE IF PyStr(roidata_filename) \notin RoiFileNames
    THEN [exc |-> "AssertionError",
          db |-> IF image = NoObj THEN st.db ELSE SubSeq(st.db, 1, image.id - 1),
          calls |-> st.calls]
    ELSE SaveRois(st, x, roidata_filename, image)

\* ImageFactory.save after the upload returned image.
AfterUpload(st, x, roidata_filename, image) ==
    IF IsNone(roidata_filename) THEN [exc |-> "", db |-> st.db, calls |-> st.calls]
    ELSE IF PyStr(roidata_filename) \notin RoiFileNames
    THEN [exc |-> "AssertionError", db |-> st.db, calls |-> st.calls]
    ELSE SaveRois(st, x, roidata_filename, image)

\* A variant of the path checks without the test for an empty path.
PathCheckExistsOnly(file_path) ==
    IF ~Falsy(file_path) /\ PyStr(file_path) \notin ExistingFiles
    THEN "AssertionError" ELSE ""

\* ImageFactory.save: the checks on the path of the data file, "" when the
\* path is given and the file exists.
PathCheck(file_path) ==
    IF Falsy(file_path) THEN "ValueError"
    ELSE IF PyStr(file_path) \notin ExistingFiles THEN "AssertionError"
    ELSE ""

\* ImageFactory(image_data, path_to_arc).save(conn, parent) for data file x;
\* uploaded tells whether the upload collaborator returns an image.
ImageFactorySave(rows, log, image_data, x, parent, uploaded) ==
    LET fail(exc) == [exc |-> exc, db |-> rows, calls |-> log] IN
    IF image_data.t # "dict" THEN fail("AssertionError")
    ELSE IF ~HasKey(image_data, "comments") THEN fail("KeyError")
    ELSE LET comments == Item(image_data, "comments").items
             img_name == CommentValue(comments, 1, "name", JStr(""))
             img_description == CommentValue(comments, 1, "description", JStr(""))
             roidata_filename == CommentValue(comments, 1, "roidata_filename", JNull)
             file_path == Get(image_data, "name", JNull)
             rows1 == IF uploaded
                      THEN import_and_tag_image(rows, parent.id,
                               PyStr(img_name), PyStr(img_description))
                      ELSE rows
             image == IF uploaded THEN rows1[Len(rows) + 1] ELSE NoObj
             log1 == Append(log, Event("upload", "image", x, 1, parent.id, "",
                                       Len(rows), Len(rows1)))
         IN  IF PathCheck(file_path) # "" THEN fail(PathCheck(file_path))
             ELSE IF parent = NoObj THEN fail("AttributeError")
             ELSE AfterUpload([db |-> rows1, calls |-> log1], x,
                              roidata_filename, image)

\* The data files of the running DatasetFactory, <<>> without "dataFiles".
images_data(a) ==
    IF IsNone(Get(a, "dataFiles", JNull)) THEN <<>> ELSE Item(a, "dataFiles").items

\* A variant of DatasetFactory.save that links the dataset to the parent as
\* soon as it is saved.
DatasetSaveLinked ==
    /\ Head(pc) = "dataset_save"
    /\ LET r == DatasetIdentifier(assay) IN
       IF r.exc = ""
       THEN /\ dataset' = Saved(Persist(db, [NewObj("Dataset") EXCEPT !.name = rstring(r.name)]))
            /\ db' = IF parent_object # NoObj
                     THEN link(Persist(db, dataset'), parent_object, dataset').db
                     ELSE Persist(db, dataset')
            /\ pc' = <<"dataset_annotations">> \o Tail(pc)
            /\ err' = err
       ELSE /\ pc' = <<"failed">>
            /\ err' = r.exc
            /\ UNCHANGED <<db, dataset>>
    /\ i' = 1
    /\ UNCHANGED <<data, project_name, importer, assay, parent_object,
                   target_image, ome_project, isa_attributes, calls, project,
                   j, k, investigation>>

\* DatasetFactory.save, up to the dataset being saved.
DatasetSave ==
    /\ Head(pc) = "dataset_save"
    /\ LET r == DatasetIdentifier(assay) IN
       IF r.exc = ""
       THEN /\ db' = Persist(db, [NewObj("Dataset") EXCEPT !.name = rstring(r.name)])
            /\ dataset' = Saved(db')
            /\ pc' = <<"dataset_annotations">> \o Tail(pc)
            /\ err' = err
       ELSE /\ pc' = <<"failed">>
            /\ err' = r.exc
            /\ UNCHANGED <<db, dataset>>
    /\ i' = 1
    /\ UNCHANGED <<data, project_name, importer, assay, parent_object,
                   target_image, ome_project, isa_attributes, calls, project,
                   j, k, investigation>>

\* DatasetFactory._add_mapped_annotations, one fragment.
AnnotateDataset ==
    /\ Head(pc) = "dataset_annotations"
    /\ AnnotationStep("dataset", DatasetFragments(assay), dataset, "add_images")
    /\ k' = 1
    /\ UNCHANGED <<data, project_name, importer, assay, parent_object,
                   target_image, ome_project, isa_attributes, project, dataset,
                   j, investigation>>

\* A variant of the test that takes every data file that has a type.
IsRawImageAnyType(image_data) == HasKey(image_data, "type")

\* _add_images: image_data.get("type", None) == "Raw Image Data File"
IsRawImage(image_data) ==
    Get(image_data, "type", JNull) = JStr("Raw Image Data File")

\* _add_images: a data file whose type is not "Raw Image Data File".
SkipDataFile ==
    /\ Head(pc) = "add_images"
    /\ k <= Len(images_data(assay))
    /\ ~IsRawImage(images_data(assay)[k])
    /\ k' = k + 1
    /\ UNCHANGED <<data, project_name, importer, assay, parent_object,
                   target_image, ome_project, isa_attributes, pc, err, db,
                   calls, project, dataset, i, j, investigation>>

\* _add_images: a raw image data file goes through ImageFactory.save.
AddImage ==
    /\ Head(pc) = "add_images"
    /\ k <= Len(images_data(assay))
    /\ IsRawImage(images_data(assay)[k])
    /\ \E uploaded \in BOOLEAN :
        LET log == Append(calls, Event("ImageFactory", "dataset", k, Len(images_data(assay)), dataset.id, "",
                                       Len(db), Len(db)))
            r == ImageFactorySave(db, log, images_data(assay)[k], k, dataset, uploaded)
        IN  /\ db' = r.db
            /\ calls' = r.calls
            /\ err' = r.exc
            /\ pc' = IF r.exc = "" THEN pc ELSE <<"failed">>
    /\ k' = k + 1
    /\ UNCHANGED <<data, project_name, importer, assay, parent_object,
                   target_image, ome_project, isa_attributes, project, dataset,
                   i, j, investigation>>

\* DatasetFactory.save: after the images the dataset is linked to the parent
\* and returned.
LinkDataset ==
    /\ Head(pc) = "add_images"
    /\ k > Len(images_data(assay))
    /\ LET r == IF parent_object # NoObj THEN link(db, parent_object, dataset)
                ELSE [exc |-> "", db |-> db]
       IN  /\ db' = r.db
           /\ err' = r.exc
           /\ pc' = IF r.exc = "" THEN Return(pc) ELSE <<"failed">>
    /\ UNCHANGED <<data, project_name, importer, assay, parent_object,
                   target_image, ome_project, isa_attributes, calls, project,
                   dataset, i, j, k, investigation>>

(***************************************************************************)
(* Generated input documents.                                               *)
(***************************************************************************)
\* All sequences over S of length at most n.
SeqsUpTo(S, n) == UNION {[1..m -> S] : m \in 0..n}

Anchor(ns) == Comment("omero_annotation_namespace", JStr(ns))

\* Fragments found in the lists of a document: one that decodes, one without
\* comments, one whose first comment is a bare string.
FragAnchored ==
    JDict(<<KV("comments", JList(<<Anchor("ISA:INVESTIGATION:INVESTIGATION PUBLICATIONS")>>)),
            KV("doi", JStr("10.1/x"))>>)
FragNoAnchor == JDict(<<KV("doi", JStr("10.1/y"))>>)
FragBadComment == JDict(<<KV("comments", JList(<<JStr("note")>>))>>)
ExtraKinds == {FragAnchored, FragNoAnchor, FragBadComment}

\* Data files of an assay.
DataFile(type, name, comments) ==
    JDict(<<KV("type", JStr(type))>> \o name \o <<KV("comments", JList(comments))>>)
ImageComments ==
    <<Comment("omero_image_id", JStr("7")), Comment("name", JStr("img")),
      Comment("description", JStr("an image"))>>
FileRaw ==
    DataFile("Raw Image Data File", <<KV("name", JStr("assays/a1/dataset/img2.tif"))>>,
             ImageComments)
FileRawWithRois ==
    DataFile("Raw Image Data File", <<KV("name", JStr("assays/a1/dataset/img.tif"))>>,
             ImageComments \o <<Comment("roidata_filename", JStr("img_roidata.json"))>>)
FileRawNoRois ==
    DataFile("Raw Image Data File", <<KV("name", JStr("assays/a1/dataset/img2.tif"))>>,
             ImageComments \o <<Comment("roidata_filename", JStr("img2_roidata.json"))>>)
FileRawRoisMissing ==
    DataFile("Raw Image Data File", <<KV("name", JStr("assays/a1/dataset/img.tif"))>>,
             ImageComments \o <<Comment("roidata_filename", JStr("lost_roidata.json"))>>)
FileOther ==
    DataFile("Derived Data File", <<KV("name", JStr("assays/a1/dataset/table.csv"))>>,
             <<>>)
FileNoName == DataFile("Raw Image Data File", <<>>, ImageComments)
FileMissing ==
    DataFile("Raw Image Data File", <<KV("name", JStr("assays/a1/dataset/lost.tif"))>>,
             ImageComments)
FileNoType ==
    JDict(<<KV("name", JStr("assays/a1/dataset/img2.tif")),
            KV("comments", JList(ImageComments))>>)
FileEmptyName ==
    DataFile("Raw Image Data File", <<KV("name", JStr(""))>>,
             ImageComments \o <<Comment("roidata_filename", JStr("img_roidata.json"))>>)
FileKinds ==
    {FileRaw, FileRawWithRois, FileRawNoRois, FileRawRoisMissing, FileOther,
     FileNoName, FileMissing, FileNoType, FileEmptyName}

\* Assays: comments is a list of key-value pairs holding the "comments"
\* field or nothing, files likewise for "dataFiles".
Assay(comments, files) ==
    JDict(comments \o <<KV("technologyPlatform", JStr("confocal"))>> \o files)
Comments(cs) == <<KV("comments", JList(cs))>>
Files(fs) == <<KV("dataFiles", JList(fs))>>
Identifier(name) == Comment("identifier", JStr(name))

AssayOk ==
    Assay(Comments(<<Anchor("ISA:ASSAY:ASSAY"), Identifier("my-first-assay")>>),
          Files(<<FileOther, FileRaw>>))
AssayNoIdentifier == Assay(Comments(<<Anchor("ISA:ASSAY:ASSAY")>>), Files(<<FileRaw>>))
AssayBadFile ==
    Assay(Comments(<<Anchor("ISA:ASSAY:ASSAY"), Identifier("my-second-assay")>>),
          Files(<<FileRaw, FileRawRoisMissing>>))
AssayKinds == {AssayOk, AssayNoIdentifier, AssayBadFile}

\* The comments fields of the assays DatasetFactory is run on alone.
AssayCommentKinds ==
    {<<>>,
     Comments(<<>>),
     Comments(<<Anchor("ISA:ASSAY:ASSAY")>>),
     Comments(<<Identifier("first"), Identifier("second")>>),
     Comments(<<Anchor("ISA:ASSAY:ASSAY"), JStr("note"), Identifier("late")>>),
     Comments(<<JStr("note"), Identifier("late")>>)}

DatasetInputs ==
    {Assay(c, Files(<<FileRaw, FileOther>>)) : c \in AssayCommentKinds}
    \cup {Assay(Comments(<<Anchor("ISA:ASSAY:ASSAY"), Identifier("my-first-assay")>>), f) :
            f \in {<<>>} \cup {Files(fs) : fs \in SeqsUpTo(FileKinds, MaxFiles)}}

\* Studies and investigations: title, description and assays are lists of
\* key-value pairs holding the field or nothing; the study has list-valued,
\* scalar and mapping-valued fields.
Study(title, description, assays) ==
    JDict(<<KV("comments", JList(<<Anchor("ISA:STUDY:STUDY")>>))>>
          \o title \o description
          \o <<KV("people", JList(<<FragNoAnchor, FragAnchored>>)),
               KV("filename", JStr("s_study.txt")),
               KV("materials", JDict(<<KV("sources", JList(<<>>))>>))>>
          \o assays)

Investigation(extras, studies) ==
    JDict(<<KV("comments", JList(<<Anchor("ISA:INVESTIGATION:INVESTIGATION")>>)),
            KV("identifier", JStr("my-custom-investigation-id")),
            KV("publications", JList(extras))>>
          \o studies)

Studies ==
    {Study(t, d, a) :
        t \in {<<>>, <<KV("title", JStr("My annotated Study"))>>},
        d \in {<<>>, <<KV("description", JStr("My custom description."))>>},
        a \in {<<>>} \cup {<<KV("assays", JList(as))>> : as \in SeqsUpTo(AssayKinds, MaxAssays)}}

PlainStudy == Study(<<>>, <<>>, <<>>)

ImportInputs ==
    {Investigation(e, <<KV("studies", JList(<<s>>))>>) :
        e \in SeqsUpTo(ExtraKinds, MaxFrags), s \in Studies}
    \cup {Investigation(e, s) :
            e \in SeqsUpTo({FragAnchored}, MaxFrags),
            s \in {<<>>, <<KV("studies", JList(<<>>))>>,
                   <<KV("studies", JList(<<PlainStudy, PlainStudy>>))>>}}

(***************************************************************************)
(* Specifications.                                                          *)
(***************************************************************************)
\* The rows a stand-alone operation finds in the database: a saved project.
SavedProject == [NewObj("Project") EXCEPT !.id = 1, !.name = "parent"]

\* The importer: IsaInvestigationImporter(data, path, project_name).save(conn).
Init ==
    /\ data \in ImportInputs
    /\ project_name \in {JNull, JStr("My Project")}
    /\ importer = NoImporter
    /\ assay = JNull
    /\ parent_object = NoObj
    /\ target_image = NoObj
    /\ ome_project = NoObj
    /\ isa_attributes = <<>>
    /\ pc = <<"new">>
    /\ err = ""
    /\ db = <<>>
    /\ calls = <<>>
    /\ project = NoObj
    /\ dataset = NoObj
    /\ i = 0
    /\ j = 0
    /\ k = 0
    /\ investigation = JNull

Next ==
    \/ Construct
    \/ SaveProject
    \/ AnnotateProject
    \/ NextAssay
    \/ ReturnProject
    \/ DatasetSave
    \/ AnnotateDataset
    \/ SkipDataFile
    \/ AddImage
    \/ LinkDataset

Spec == Init /\ [][Next]_vars

\* DatasetFactory(assay, path).save(conn, parent_object) on its own.
InitDataset ==
    /\ data = JNull
    /\ project_name = JNull
    /\ importer = NoImporter
    /\ assay \in DatasetInputs
    /\ parent_object \in {NoObj, SavedProject}
    /\ target_image = NoObj
    /\ ome_project = NoObj
    /\ isa_attributes = <<>>
    /\ pc = <<"dataset_save">>
    /\ err = ""
    /\ db = <<SavedProject>>
    /\ calls = <<>>
    /\ project = NoObj
    /\ dataset = NoObj
    /\ i = 0
    /\ j = 0
    /\ k = 0
    /\ investigation = JNull

NextDataset ==
    \/ DatasetSave
    \/ AnnotateDataset
    \/ SkipDataFile
    \/ AddImage
    \/ LinkDataset

SpecDataset == InitDataset /\ [][NextDataset]_vars

(***************************************************************************)
(* Annotation decode on its own.                                            *)
(***************************************************************************)
\* The comments field of a fragment, or no such field.
FragmentCommentKinds ==
    {<<>>,
     <<KV("comments", JNull)>>,
     Comments(<<>>),
     Comments(<<Anchor("ISA:STUDY:STUDY")>>),
     Comments(<<Anchor("ISA:STUDY:STUDY"), Identifier("my-first-assay")>>),
     Comments(<<Comment("omero_annotation_namespace", JNull)>>),
     Comments(<<Identifier("my-first-assay")>>),
     Comments(<<Identifier("my-first-assay"), Anchor("ISA:STUDY:STUDY")>>),
     Comments(<<JDict(<<KV("value", JStr("ISA:STUDY:STUDY"))>>)>>),
     Comments(<<JStr("note")>>),
     Comments(<<JStr("note"), Anchor("ISA:STUDY:STUDY")>>)}

OntologyAnnotation(term, accession, source) ==
    JDict(<<KV("annotationValue", term), KV("termAccession", accession),
            KV("termSource", source)>>)

\* The other fields of a fragment.
FragmentFieldKinds ==
    {<<>>,
     <<KV("title", JStr("My annotated Study"))>>,
     <<KV("title", JNull), KV("size", JNum(3))>>,
     <<KV("people", JList(<<FragAnchored>>))>>,
     <<KV("measurementType",
          OntologyAnnotation(JStr("imaging"), JStr("OBI_1"), JStr("OBI")))>>,
     <<KV("title", JStr("t")),
       KV("measurementType",
          JDict(<<KV("annotationValue", JStr("imaging")), KV("termSource", JStr("OBI"))>>))>>}

DecodeInputs ==
    {JDict(c \o f) : c \in FragmentCommentKinds, f \in FragmentFieldKinds}
    \cup {JNull, JNum(1), JStr("text"), JList(<<FragAnchored>>)}

\* try: MappedAnnotationFactory(data).save(conn, parent_object)
Decode ==
    /\ pc = <<"decode">>
    /\ LET r == DecodeAndSave(db, data, parent_object) IN
        /\ db' = r.db
        /\ err' = r.exc
        /\ calls' = Append(calls, Event("decode", "caller", 1, 1, parent_object.id, r.exc,
                                        Len(db), Len(r.db)))
        /\ pc' = IF r.exc = "" THEN <<"done">> ELSE <<"failed">>
    /\ UNCHANGED <<data, project_name, importer, assay, parent_object,
                   target_image, ome_project, isa_attributes, project, dataset,
                   i, j, k, investigation>>

InitDecode ==
    /\ data \in DecodeInputs
    /\ project_name = JNull
    /\ importer = NoImporter
    /\ assay = JNull
    /\ parent_object \in {NoObj, SavedProject}
    /\ target_image = NoObj
    /\ ome_project = NoObj
    /\ isa_attributes = <<>>
    /\ pc = <<"decode">>
    /\ err = ""
    /\ db = <<SavedProject>>
    /\ calls = <<>>
    /\ project = NoObj
    /\ dataset = NoObj
    /\ i = 0
    /\ j = 0
    /\ k = 0
    /\ investigation = JNull

NextDecode == Decode

SpecDecode == InitDecode /\ [][NextDecode]_vars

(***************************************************************************)
(* ROI decode on its own.                                                   *)
(***************************************************************************)
\* Shape entries: a point on plane (null, 2, 0), a shape of a type the
\* decoder does not know, and a rectangle without plane coordinates.
ShapeKinds ==
    {JDict(<<KV("type", JStr("PointI")), KV("z", JNull), KV("t", JNum(2)),
             KV("c", JNum(0)), KV("x", JNum(1)), KV("y", JNum(1))>>),
     JDict(<<KV("type", JStr("MaskI")), KV("z", JNum(1)), KV("t", JNum(1)),
             KV("c", JNum(1))>>),
     JDict(<<KV("type", JStr("RectangleI")), KV("x", JNum(1)), KV("y", JNum(1)),
             KV("width", JNum(4)), KV("height", JNum(4))>>)}

RoiInputs ==
    {JList(rois) :
        rois \in SeqsUpTo({RoiEntry(1, shs) : shs \in SeqsUpTo(ShapeKinds, MaxShapes)},
                          MaxRois)}

\* A saved image the ROIs are imported into.
SavedImage == [NewObj("Image") EXCEPT !.id = 1, !.name = "img"]

\* import_rois_from_json(json_path, image, conn), data being the file content
ImportRois ==
    /\ pc = <<"import_rois">>
    /\ LET r == import_rois_from_json(db, data, target_image) IN
        /\ db' = r.db
        /\ err' = r.exc
        /\ calls' = Append(calls, Event("import_rois", "caller", 1, 1, target_image.id,
                                        r.exc, Len(db), Len(r.db)))
        /\ pc' = IF r.exc = "" THEN <<"done">> ELSE <<"failed">>
    /\ UNCHANGED <<data, project_name, importer, assay, parent_object,
                   target_image, ome_project, isa_attributes, project, dataset,
                   i, j, k, investigation>>

InitRoi ==
    /\ data \in RoiInputs
    /\ project_name = JNull
    /\ importer = NoImporter
    /\ assay = JNull
    /\ parent_object = NoObj
    /\ target_image = SavedImage
    /\ ome_project = NoObj
    /\ isa_attributes = <<>>
    /\ pc = <<"import_rois">>
    /\ err = ""
    /\ db = <<SavedImage>>
    /\ calls = <<>>
    /\ project = NoObj
    /\ dataset = NoObj
    /\ i = 0
    /\ j = 0
    /\ k = 0
    /\ investigation = JNull

NextRoi == ImportRois

SpecRoi == InitRoi /\ [][NextRoi]_vars

(***************************************************************************)
(* isa_mapping.py: AbstractIsaMapper._create_isa_attributes (encode).      *)
(***************************************************************************)
\* One entry of isa_attribute_config.
Config(annotation_type, namespace, default_values, ontology_annotations) ==
    [type |-> annotation_type, namespace |-> namespace,
     default_values |-> default_values,
     ontology_annotations |-> ontology_annotations]

\* Python strings are atomic here, so the names whose characters matter are
\* built from their characters: the names of up to MaxName characters over
\* an upper-case letter, its lower-case letter, the space and the hyphen.
MaxName == 3
Alphabet == {"M", "m", " ", "-"}
Names == SeqsUpTo(Alphabet, MaxName)
RECURSIVE Join(_)
Join(cs) == IF cs = <<>> THEN "" ELSE Head(cs) \o Join(Tail(cs))
Chars(name) == CHOOSE cs \in Names : Join(cs) = name

\* A variant of lower() that swaps the case of every letter.
swapcase(cs) ==
    [x \in DOMAIN cs |-> IF cs[x] = "M" THEN "m"
                          ELSE IF cs[x] = "m" THEN "M" ELSE cs[x]]

\* Python: str.lower(), character by character.
lower(cs) == [x \in DOMAIN cs |-> IF cs[x] = "M" THEN "m" ELSE cs[x]]

\* Python: str.replace(old, new) for one-character old and new.
replace(cs, old, new) == [x \in DOMAIN cs |-> IF cs[x] = old THEN new ELSE cs[x]]

\* name.lower().replace(" ", "-"): by character for the names built from
\* characters, by table for the names of the fixture.
lower_hyphen(name) ==
    CASE name = "My First Study" -> "my-first-study"
      [] name = "My Assay with Annotations" -> "my-assay-with-annotations"
      [] OTHER -> IF \E cs \in Names : Join(cs) = name
                  THEN Join(replace(lower(Chars(name)), " ", "-"))
                  ELSE name

\* OmeroProjectMapper.__init__: isa_attribute_config of project p.
ProjectConfig(p) ==
    <<Config("investigation", "ISA:INVESTIGATION:INVESTIGATION",
             <<KV("filename", JStr("i_investigation.txt")),
               KV("identifier", JStr("default-investigation-id")),
               KV("title", JNull), KV("description", JNull),
               KV("submission_date", JNull), KV("public_release_date", JNull)>>,
             <<>>),
      Config("investigation_ontology_source_reference",
             "ISA:INVESTIGATION:ONTOLOGY SOURCE REFERENCE",
             <<KV("name", JStr("")), KV("file", JStr("")),
               KV("description", JStr(""))>>,
             <<>>),
      Config("investigation_contacts", "ISA:INVESTIGATION:INVESTIGATION CONTACTS",
             <<KV("last_name", JStr("Owner")), KV("first_name", JStr("Olga")),
               KV("email", JStr("olga@example.org")), KV("phone", JNull),
               KV("fax", JNull), KV("address", JNull), KV("affiliation", JNull)>>,
             <<"roles">>),
      Config("investigation_publications",
             "ISA:INVESTIGATION:INVESTIGATION PUBLICATIONS",
             <<KV("doi", JNull), KV("pubmed_id", JNull),
               KV("author_list", JNull), KV("title", JNull)>>,
             <<"status">>),
      Config("study", "ISA:STUDY:STUDY",
             <<KV("filename", JStr("")),
               KV("identifier", JStr(lower_hyphen(p.name))),
               KV("title", JStr(p.name)), KV("description", JStr(p.desc)),
               KV("submission_date", JNull), KV("public_release_date", JNull)>>,
             <<"design_descriptors">>),
      Config("study_publications", "ISA:STUDY:STUDY PUBLICATIONS",
             <<KV("doi", JNull), KV("pubmed_id", JNull),
               KV("author_list", JNull), KV("title", JNull)>>,
             <<"status">>)>>

\* Python: ont in key, for the keys of the model's vocabulary: a key holds
\* ont exactly when it is ont or ont followed by one of the suffixes.
OntologySuffixes == {"_term", "_term_accession", "_term_source"}
InKey(ont, key) == key = ont \/ \E sfx \in OntologySuffixes : key = ont \o sfx
\* Python: key.replace(ont + "_", "")
StripOntology(ont, key) ==
    CASE key = ont \o "_term" -> "term"
      [] key = ont \o "_term_accession" -> "term_accession"
      [] key = ont \o "_term_source" -> "term_source"
      [] OTHER -> key

\* Python: dict(pairs), a later pair of a key replacing the earlier one
RECURSIVE DictOf(_, _, _)
DictOf(pairs, x, m) ==
    IF x > Len(pairs) THEN m ELSE DictOf(pairs, x + 1, SetKey(m, pairs[x].k, pairs[x].v))

\* Python: {key: v for key, v in m.items() if (ont in key) == wanted}
RECURSIVE FilterKeys(_, _, _, _)
FilterKeys(m, x, ont, wanted) ==
    IF x > Len(m) THEN <<>>
    ELSE (IF InKey(ont, m[x].k) = wanted THEN <<m[x]>> ELSE <<>>)
         \o FilterKeys(m, x + 1, ont, wanted)

\* _annotation_data: the maps of the annotations stored under namespace.
RECURSIVE AnnotationData(_, _, _)
AnnotationData(annotations, x, namespace) ==
    IF x > Len(annotations) THEN <<>>
    ELSE (IF annotations[x].ns = namespace
          THEN <<DictOf([y \in 1..Len(annotations[x].map) |->
                            KV(annotations[x].map[y].k, JStr(annotations[x].map[y].v))],
                        1, <<>>)>>
          ELSE <<>>)
         \o AnnotationData(annotations, x + 1, namespace)

\* The keyword arguments isatools' OntologyAnnotation accepts.
OntologyAnnotationArgs == {"term", "term_source", "term_accession", "comments", "id_"}

\* isatools' OntologySource(name), as the mapping of its name.
OntologySource(name) == JDict(<<KV("name", name)>>)

\* A "term_source" of the ontology annotation becomes an OntologySource.
WithOntologySource(ontology_annotation) ==
    [y \in 1..Len(ontology_annotation) |->
        IF ontology_annotation[y].k = "term_source"
        THEN KV("term_source", OntologySource(ontology_annotation[y].v))
        ELSE ontology_annotation[y]]

\* The loop over ontology_config for one annotation: the ontology keys are
\* moved out of the annotation into one OntologyAnnotation per field.
\* st holds the annotation left, the ontology attribute built, the exception.
RECURSIVE SplitOntology(_, _, _)
SplitOntology(st, ontology_config, x) ==
    IF x > Len(ontology_config) \/ st.exc # "" THEN st
    ELSE LET ont == ontology_config[x]
             picked == FilterKeys(st.annotation, 1, ont, TRUE)
             ontology_annotation ==
                 DictOf([y \in 1..Len(picked) |->
                            KV(StripOntology(ont, picked[y].k), picked[y].v)], 1, <<>>)
         IN  SplitOntology(
                [annotation |-> FilterKeys(st.annotation, 1, ont, FALSE),
                 ontology |-> SetKey(st.ontology, ont,
                                     JDict(WithOntologySource(ontology_annotation))),
                 exc |-> IF \E y \in 1..Len(ontology_annotation) :
                               ontology_annotation[y].k \notin OntologyAnnotationArgs
                         THEN "TypeError" ELSE ""],
                ontology_config, x + 1)

\* A variant of the loop over config["default_values"] that takes every
\* value from the default table and none from the annotation.
RECURSIVE SetValuesFromDefaults(_, _, _, _)
SetValuesFromDefaults(values_to_set, annotation, default_values, x) ==
    IF x > Len(default_values) THEN values_to_set
    ELSE SetValuesFromDefaults(
            IF ~IsNone(default_values[x].v)
            THEN SetKey(values_to_set, default_values[x].k, default_values[x].v)
            ELSE values_to_set,
            annotation, default_values, x + 1)

\* A variant of the loop over config["default_values"] that also sets the
\* values that are None.
RECURSIVE SetValuesKeepNone(_, _, _, _)
SetValuesKeepNone(values_to_set, annotation, default_values, x) ==
    IF x > Len(default_values) THEN values_to_set
    ELSE SetValuesKeepNone(
            SetKey(values_to_set, default_values[x].k,
                   Get(JDict(annotation), default_values[x].k, default_values[x].v)),
            annotation, default_values, x + 1)

\* The loop over config["default_values"] for one annotation: values_to_set
\* is updated in place and is not emptied between two annotations.
RECURSIVE SetValues(_, _, _, _)
SetValues(values_to_set, annotation, default_values, x) ==
    IF x > Len(default_values) THEN values_to_set
    ELSE LET key == default_values[x].k
             value == Get(JDict(annotation), key, default_values[x].v)
         IN  SetValues(IF ~IsNone(value) THEN SetKey(values_to_set, key, value)
                       ELSE values_to_set,
                       annotation, default_values, x + 1)

\* The loop over annotation_data that appends to "values".
RECURSIVE ValuesFrom(_, _, _, _, _)
ValuesFrom(annotation_data, x, default_values, values_to_set, values) ==
    IF x > Len(annotation_data) THEN values
    ELSE LET set == SetValues(values_to_set, annotation_data[x], default_values, 1)
         IN  ValuesFrom(annotation_data, x + 1, default_values, set,
                        IF Len(set) > 0 THEN Append(values, set) ELSE values)

\* The end of a turn of the loop over isa_attribute_config: an entry without
\* values is deleted, the lengths are asserted equal and each entry of
\* "values" gets the namespace comment.
IsaAttributeEntry(config, values, ontology_values, failed) ==
    LET none == [type |-> config.type, exc |-> "", present |-> FALSE,
                 values |-> <<>>, ontology_values |-> <<>>]
    IN  IF failed THEN [none EXCEPT !.exc = "TypeError"]
        ELSE IF Len(values) = 0 THEN none
        ELSE IF Len(values) # Len(ontology_values)
        THEN [none EXCEPT !.exc = "AssertionError"]
        ELSE [none EXCEPT
                !.present = TRUE,
                !.values = [x \in 1..Len(values) |->
                               SetKey(values[x], "comments",
                                      JList(<<Anchor(config.namespace)>>))],
                !.ontology_values = ontology_values]

\* The values of a turn: the defaults when the namespace has no annotation,
\* else what the loop over annotation_data appends; split holds, for each
\* annotation, what the ontology loop left of it and what it took out.
CollectValues(config, split, defaults) ==
    IsaAttributeEntry(
        config,
        IF Len(split) = 0
        THEN (IF Len(defaults) > 0 THEN <<defaults>> ELSE <<>>)
        ELSE ValuesFrom([x \in 1..Len(split) |-> split[x].annotation], 1,
                        config.default_values, <<>>, <<>>),
        IF Len(split) = 0 /\ Len(defaults) > 0
        THEN <<<<>>>>
        ELSE [x \in 1..Len(split) |-> split[x].ontology],
        \E x \in 1..Len(split) : split[x].exc # "")

\* The ontology loop of a turn, over the annotations raw of the namespace.
SplitAnnotations(config, raw) ==
    CollectValues(
        config,
        [x \in 1..Len(raw) |->
            SplitOntology([annotation |-> raw[x], ontology |-> <<>>, exc |-> ""],
                          config.ontology_annotations, 1)],
        SetValues(<<>>, <<>>, config.default_values, 1))

\* One turn of the loop over isa_attribute_config: the entry of isa_attributes
\* for config, present false when it is deleted, or the exception raised.
CreateIsaAttribute(config, annotations) ==
    SplitAnnotations(config, AnnotationData(annotations, 1, config.namespace))

\* A map annotation stored on the mapped object.
Stored(namespace, pairs) ==
    [NewObj("MapAnnotation") EXCEPT !.ns = namespace, !.map = pairs]
SV(key, value) == [k |-> key, v |-> value]

StoredAnnotations ==
    {Stored("ISA:INVESTIGATION:INVESTIGATION PUBLICATIONS",
            <<SV("note", "see the paper")>>),
     Stored("ISA:INVESTIGATION:INVESTIGATION PUBLICATIONS",
            <<SV("doi", "10.1/x"), SV("status_term", "published"),
              SV("status_term_accession", "EFO_1"), SV("status_term_source", "EFO")>>),
     Stored("ISA:INVESTIGATION:INVESTIGATION PUBLICATIONS",
            <<SV("title", "A paper")>>),
     Stored("ISA:STUDY:STUDY", <<SV("identifier", "my-custom-study-id")>>),
     Stored("ISA:INVESTIGATION:INVESTIGATION",
            <<SV("identifier", "my-custom-investigation-id")>>)}

\* The projects the mapper is run on.
EncodeInputs ==
    {[name |-> "My First Study", desc |-> "", annotations |-> a] :
        a \in SeqsUpTo(StoredAnnotations, MaxAnnotations)}

\* _create_isa_attributes, one turn of its loop over isa_attribute_config.
CreateIsaAttributes ==
    /\ pc = <<"create_isa_attributes">>
    /\ LET r == CreateIsaAttribute(ProjectConfig(ome_project)[i], ome_project.annotations) IN
        /\ isa_attributes' = IF r.present THEN Append(isa_attributes, r)
                             ELSE isa_attributes
        /\ err' = r.exc
        /\ pc' = IF r.exc # "" THEN <<"failed">>
                 ELSE IF i = Len(ProjectConfig(ome_project)) THEN <<"done">>
                 ELSE pc
    /\ i' = i + 1
    /\ UNCHANGED <<data, project_name, importer, assay, parent_object,
                   target_image, ome_project, db, calls, project, dataset, j,
                   k, investigation>>

InitEncode ==
    /\ data = JNull
    /\ project_name = JNull
    /\ importer = NoImporter
    /\ assay = JNull
    /\ parent_object = NoObj
    /\ target_image = NoObj
    /\ ome_project \in EncodeInputs
    /\ isa_attributes = <<>>
    /\ pc = <<"create_isa_attributes">>
    /\ err = ""
    /\ db = <<>>
    /\ calls = <<>>
    /\ project = NoObj
    /\ dataset = NoObj
    /\ i = 1
    /\ j = 0
    /\ k = 0
    /\ investigation = JNull

NextEncode == CreateIsaAttributes

SpecEncode == InitEncode /\ [][NextEncode]_vars

(***************************************************************************)
(* Claims.                                                                  *)
(***************************************************************************)
\* The rows a call added to the database.
RowsOf(e) == (e.at + 1)..e.n
Ended == pc \in {<<"done">>, <<"failed">>}

\* C1: each successful annotation decode with a parent object persists
\* exactly one map annotation, and that annotation is the one linked to the
\* parent: the call leaves no second and no unlinked annotation.
C1_OneLinkedAnnotationPerDecode ==
    \A x \in DOMAIN calls :
        LET e == calls[x]
            added == {r \in RowsOf(e) : db[r].type = "MapAnnotation"}
        IN  (e.op = "decode" /\ e.exc = "" /\ e.res # NoId) =>
                /\ Cardinality(added) = 1
                /\ \A a \in added :
                      \E l \in RowsOf(e) :
                          /\ db[l].type = "Link"
                          /\ db[l].parent = e.res
                          /\ db[l].child = a

\* C1, the case the claim is about: a decode with a parent has succeeded.
C1_Witness ==
    \E x \in DOMAIN calls :
        calls[x].op = "decode" /\ calls[x].exc = "" /\ calls[x].res # NoId

\* C2: ROI decode of a list of N entries persists exactly N ROI records of
\* the target image, the x-th one built from the x-th entry, for every N >= 0.
C2_OneRoiPerEntry ==
    (pc = <<"done">>) =>
        LET rois == SelectSeq(db, LAMBDA r : r.type = "Roi") IN
        /\ Len(rois) = Len(data.items)
        /\ \A x \in 1..Len(rois) :
              /\ rois[x].image = target_image.id
              /\ rois[x].shapes = AddShapes(Item(data.items[x], "shapes").items, 1, <<>>).shapes

\* C2, the case the claim is about: a list of two entries was decoded.
C2_Witness == pc = <<"done">> /\ Len(data.items) = 2

\* C3: when the upload returns no image and the data file names a ROI file,
\* ROI decode is not called: it is never handed a null image.
C3_NoRoiImportWithoutImage ==
    \A x \in DOMAIN calls : calls[x].op = "import_rois" => calls[x].res # NoId

\* C3, the case the claim is about: an upload that returned no image for a
\* data file with a roidata_filename comment.
C3_Witness ==
    \E x \in DOMAIN calls :
        /\ calls[x].op = "upload"
        /\ calls[x].at = calls[x].n
        /\ ~IsNone(CommentValue(Item(images_data(assay)[calls[x].arg], "comments").items,
                                1, "roidata_filename", JNull))

\* The number of annotations the mapped project stores under a namespace.
StoredUnder(namespace) ==
    Len(SelectSeq(ome_project.annotations, LAMBDA a : a.ns = namespace))

\* C4: for every configured namespace with N >= 1 stored annotations, encode
\* produces exactly N entries in "values" and N in "ontology_values", and
\* the length assertion never fails.
C4_OneEntryPerStoredAnnotation ==
    /\ err # "AssertionError"
    /\ \A x \in 1..Len(ProjectConfig(ome_project)) :
          LET config == ProjectConfig(ome_project)[x] IN
          (x < i /\ err = "" /\ StoredUnder(config.namespace) >= 1) =>
              \E y \in DOMAIN isa_attributes :
                  /\ isa_attributes[y].type = config.type
                  /\ Len(isa_attributes[y].values) = StoredUnder(config.namespace)
                  /\ Len(isa_attributes[y].ontology_values) = StoredUnder(config.namespace)

\* C4, the case the claim is about: a namespace with two stored annotations
\* has been encoded.
C4_Witness ==
    \E x \in 1..Len(ProjectConfig(ome_project)) :
        x < i /\ StoredUnder(ProjectConfig(ome_project)[x].namespace) = 2

\* The document has a "studies" list of exactly one element.
OneStudy == HasKey(data, "studies") /\ Len(Item(data, "studies").items) = 1

\* C5: with a document that has no "studies" key or not exactly one study the
\* constructor fails at once, before anything is persisted.
C5_WrongStudyCountFailsFirst ==
    ~OneStudy =>
        /\ pc \in {<<"new">>, <<"failed">>}
        /\ pc = <<"failed">> => err = "AssertionError"
        /\ db = <<>>
        /\ calls = <<>>

\* C5, the case the claim is about: the constructor has failed on a document
\* with two studies.
C5_Witness ==
    /\ pc = <<"failed">>
    /\ HasKey(data, "studies")
    /\ Len(Item(data, "studies").items) = 2

\* The fragment is a mapping whose first comment is the namespace anchor
\* with a value.
Anchored(d) ==
    /\ d.t = "dict"
    /\ HasKey(d, "comments")
    /\ Item(d, "comments").t = "list"
    /\ Len(Item(d, "comments").items) >= 1
    /\ LET c == Item(d, "comments").items[1] IN
        /\ c.t = "dict"
        /\ Get(c, "name", JNull) = JStr("omero_annotation_namespace")
        /\ ~IsNone(Get(c, "value", JNull))

\* C6: decode of a fragment that is not anchored raises AssertionError, the
\* recoverable signal, and persists nothing.
C6_UnanchoredIsRecoverable ==
    (pc # <<"decode">> /\ ~Anchored(data)) =>
        /\ pc = <<"failed">>
        /\ err = "AssertionError"
        /\ db = <<SavedProject>>

\* C6, the case the claim is about: decode has run on a fragment whose
\* anchor is not its first comment.
C6_Witness ==
    /\ pc = <<"failed">>
    /\ ~Anchored(data)
    /\ data.t = "dict"
    /\ HasKey(data, "comments")
    /\ Item(data, "comments").t = "list"
    /\ Len(Item(data, "comments").items) = 2

\* C7: in an annotation pass a fragment whose decode fails with
\* AssertionError is skipped and every later fragment of the pass is still
\* tried: once the import has ended, each such failure is followed in the
\* record by the decode of every later fragment of its pass.
C7_LaterFragmentsStillTried ==
    Ended =>
        \A x \in DOMAIN calls :
            LET e == calls[x] IN
            (e.op = "decode" /\ e.exc = "AssertionError") =>
                \A y \in (e.arg + 1)..e.of :
                    /\ x + (y - e.arg) <= Len(calls)
                    /\ calls[x + (y - e.arg)].op = "decode"
                    /\ calls[x + (y - e.arg)].who = e.who
                    /\ calls[x + (y - e.arg)].arg = y

\* C7, the case the claim is about: a decode failed with AssertionError
\* before the last fragment of its pass, and the import has ended.
C7_Witness ==
    /\ Ended
    /\ \E x \in DOMAIN calls :
          /\ calls[x].op = "decode"
          /\ calls[x].exc = "AssertionError"
          /\ calls[x].arg < calls[x].of


\* The decode attempts of the project-level annotation pass made so far.
ProjectDecodes ==
    {x \in DOMAIN calls : calls[x].op = "decode" /\ calls[x].who = "project"}

\* C8: in save the project is the first object persisted, so every
\* annotation, dataset and link comes after it; every project-level decode
\* attempt is made on the persisted project and before the first dataset is
\* created.
C8_ProjectThenAnnotationsThenDatasets ==
    /\ db # <<>> => db[1].type = "Project"
    /\ \A x \in DOMAIN calls : calls[x].at >= 1
    /\ \A x \in ProjectDecodes : calls[x].res = 1
    /\ \A r \in DOMAIN db :
          db[r].type = "Dataset" =>
              /\ Cardinality(ProjectDecodes) = Len(ProjectFragments(data))
              /\ \A x \in ProjectDecodes : calls[x].n < r

\* C8, the case the claim is about: a dataset has been created after a
\* project-level pass that saved an annotation.
C8_Witness ==
    /\ \E r \in DOMAIN db : db[r].type = "Dataset"
    /\ \E x \in ProjectDecodes : calls[x].exc = "" /\ calls[x].n > calls[x].at

\* The name and description save is to give the project.
ExpectedName ==
    IF ~IsNone(project_name) THEN PyStr(project_name)
    ELSE IF HasKey(study_data(data), "title")
         THEN PyStr(Item(study_data(data), "title"))
    ELSE "no_study_title"
ExpectedDescription ==
    IF HasKey(study_data(data), "description")
    THEN PyStr(Item(study_data(data), "description"))
    ELSE ""

\* C9: when save has returned, what it returned is the project as persisted,
\* named by the project_name argument if one was given, else by the study's
\* title, else "no_study_title", and described by the study's description,
\* or the empty string.
C9_ReturnedProject ==
    (pc = <<"done">>) =>
        /\ project.type = "Project"
        /\ project.id \in DOMAIN db
        /\ db[project.id] = project
        /\ project.name = ExpectedName
        /\ project.desc = ExpectedDescription

\* C9, the case the claim is about: save has returned for a call with a
\* project_name argument on a study that has a title.
C9_Witness ==
    /\ pc = <<"done">>
    /\ ~IsNone(project_name)
    /\ HasKey(study_data(data), "title")

\* The positions of the assay's comments named "identifier".
IdentifierComments ==
    IF IsNone(Get(assay, "comments", JNull)) THEN {}
    ELSE {x \in DOMAIN Item(assay, "comments").items :
            Get(Item(assay, "comments").items[x], "name", JNull) = JStr("identifier")}

\* C10: DatasetFactory.save on an assay without comments field or without
\* identifier comment fails before it has persisted a dataset, imported an
\* image or created a link; a dataset that is created has the name of the
\* first identifier comment.
C10_IdentifierRequired ==
    /\ IdentifierComments = {} =>
          /\ pc \in {<<"dataset_save">>, <<"failed">>}
          /\ pc = <<"failed">> => err \in {"AssertionError", "UnboundLocalError"}
          /\ db = <<SavedProject>>
          /\ calls = <<>>
          /\ dataset = NoObj
    /\ dataset # NoObj =>
          \E x \in IdentifierComments :
              /\ \A y \in IdentifierComments : x <= y
              /\ dataset.name = rstring(Get(Item(assay, "comments").items[x], "value", JNull))
              /\ db[dataset.id].name = dataset.name

\* C10, the case the claim is about: save has failed on an assay whose
\* comments hold no identifier.
C10_Witness ==
    /\ pc = <<"failed">>
    /\ HasKey(assay, "comments")
    /\ IdentifierComments = {}
    /\ db = <<SavedProject>>

\* The invocations of the Image Builder made so far, in order.
ImageBuilderCalls == SelectSeq(calls, LAMBDA e : e.op = "ImageFactory")

\* The positions of the assay's data files of type "Raw Image Data File".
RawImagePositions ==
    IF ~HasKey(assay, "dataFiles") THEN {}
    ELSE {x \in DOMAIN Item(assay, "dataFiles").items :
            /\ HasKey(Item(assay, "dataFiles").items[x], "type")
            /\ Item(Item(assay, "dataFiles").items[x], "type").s = "Raw Image Data File"}

\* C11: the Image Builder is invoked exactly once for each data file of type
\* "Raw Image Data File" that _add_images has passed, in list order, and for
\* no data file of another or no type; without dataFiles it is not invoked.
C11_OneImageBuilderPerRawFile ==
    /\ \A x \in DOMAIN ImageBuilderCalls :
          /\ ImageBuilderCalls[x].arg \in RawImagePositions
          /\ \A y \in DOMAIN ImageBuilderCalls :
                x < y => ImageBuilderCalls[x].arg < ImageBuilderCalls[y].arg
    /\ {ImageBuilderCalls[x].arg : x \in DOMAIN ImageBuilderCalls}
          = {x \in RawImagePositions : x < k}
    /\ pc = <<"done">> => Len(ImageBuilderCalls) = Cardinality(RawImagePositions)

\* C11, the case the claim is about: save has returned for an assay with a
\* raw image data file and a data file of another type, after one invocation.
C11_Witness ==
    /\ pc = <<"done">>
    /\ Len(images_data(assay)) = 2
    /\ Cardinality(RawImagePositions) = 1
    /\ Len(ImageBuilderCalls) = 1

\* The data file the x-th recorded call was made for.
FileOf(e) == images_data(assay)[e.arg]

\* C12: ImageFactory.save on a data file whose "name" is missing or empty
\* raises ValueError, and on one whose file does not exist below the ARC root
\* it fails with AssertionError; either way the save ends the import, the
\* upload is not invoked and no ROI is imported for that data file, and
\* nothing is persisted.
C12_PathCheckedBeforeUpload ==
    \A x \in DOMAIN calls :
        LET e == calls[x]
            path == Get(FileOf(e), "name", JNull)
            missing == IsNone(path) \/ path = JStr("")
            lost == ~missing /\ path.s \notin
                        {"assays/a1/dataset/img.tif", "assays/a1/dataset/img2.tif"}
        IN  (e.op = "ImageFactory" /\ (missing \/ lost)) =>
                /\ pc = <<"failed">>
                /\ missing => err = "ValueError"
                /\ lost => err = "AssertionError"
                /\ x = Len(calls)
                /\ Len(db) = e.at

\* C12, the case the claim is about: ImageFactory.save has failed on a data
\* file with an empty path and a roidata_filename comment.
C12_Witness ==
    /\ pc = <<"failed">>
    /\ err = "ValueError"
    /\ calls # <<>>
    /\ calls[Len(calls)].op = "ImageFactory"
    /\ FileOf(calls[Len(calls)]) = FileEmptyName

(***************************************************************************)
(* An annotation pass on its own.                                           *)
(***************************************************************************)
\* A saved object for which omero.model has no <Type>AnnotationLinkI class.
SavedAnnotation == [NewObj("MapAnnotation") EXCEPT !.id = 1, !.ns = "parent"]

\* DatasetFactory._add_mapped_annotations(parent_object, conn), one fragment.
AnnotationPass ==
    /\ Head(pc) = "annotation_pass"
    /\ AnnotationStep("pass", DatasetFragments(assay), parent_object, "done")
    /\ UNCHANGED <<data, project_name, importer, assay, parent_object,
                   target_image, ome_project, isa_attributes, project, dataset,
                   j, k, investigation>>

InitPass ==
    /\ data = JNull
    /\ project_name = JNull
    /\ importer = NoImporter
    /\ assay \in DatasetInputs
    /\ parent_object \in {SavedProject, SavedAnnotation}
    /\ target_image = NoObj
    /\ ome_project = NoObj
    /\ isa_attributes = <<>>
    /\ pc = <<"annotation_pass">>
    /\ err = ""
    /\ db = <<parent_object>>
    /\ calls = <<>>
    /\ project = NoObj
    /\ dataset = NoObj
    /\ i = 1
    /\ j = 0
    /\ k = 0
    /\ investigation = JNull

NextPass == AnnotationPass

SpecPass == InitPass /\ [][NextPass]_vars

\* The link class link() looks up for a parent and an annotation.
AnnotationLinkType(parent) == parent.type \o "AnnotationLink"

C14_NoRollback ==
    /\ [](\A x \in DOMAIN calls : calls[x].n <= Len(db))
    /\ [][\A r \in DOMAIN db : r \in DOMAIN db' /\ db'[r] = db[r]]_vars

\* C14, the case the claim is about: the import has failed in the second
\* assay, after the upload of one of its images, and the first dataset with
\* its link and image is in the database.
C14_Witness ==
    /\ pc = <<"failed">>
    /\ j = 3
    /\ Cardinality({r \in DOMAIN db : db[r].type = "Dataset"}) = 2
    /\ Cardinality({r \in DOMAIN db : db[r].type = "Image"}) >= 2
    /\ \E r \in DOMAIN db : db[r].type = "Link" /\ db[r].name = "ProjectDatasetLink"

\* The links of a dataset to a project that are in the database.
DatasetLinks == {r \in DOMAIN db : db[r].type = "Link" /\ db[r].name = "ProjectDatasetLink"}

\* C15: DatasetFactory.save links the dataset to the parent as its last
\* step: a link exists only once save has returned, it is the last row
\* persisted, the annotation pass and every data file are behind it, and it
\* joins the parent and the saved dataset; a save that failed, or one for
\* which no parent was given, has created no link.
C15_LinkIsLastStep ==
    /\ \A l \in DatasetLinks :
          /\ pc = <<"done">>
          /\ l = Len(db)
          /\ parent_object # NoObj
          /\ db[l].parent = parent_object.id
          /\ db[l].child = dataset.id
          /\ db[dataset.id].type = "Dataset"
          /\ k > Len(images_data(assay))
          /\ Cardinality({x \in DOMAIN calls : calls[x].op = "decode"})
                = Len(DatasetFragments(assay))
          /\ \A x \in DOMAIN calls : calls[x].exc \in {"", "AssertionError"}
    /\ Cardinality(DatasetLinks) <= 1
    /\ (pc = <<"done">> /\ parent_object # NoObj) => DatasetLinks # {}
    /\ (pc = <<"failed">> \/ parent_object = NoObj) => DatasetLinks = {}

\* C15, the case the claim is about: save has returned with the dataset
\* linked to the parent after two images were imported.
C15_Witness ==
    /\ pc = <<"done">>
    /\ DatasetLinks # {}
    /\ Cardinality({r \in DOMAIN db : db[r].type = "Image"}) = 2

\* The rows of a type, and the links of a kind between two rows.
RowsOfType(type) == {r \in DOMAIN db : db[r].type = type}
Linked(name, parent, child) ==
    \E l \in RowsOfType("Link") :
        db[l].name = name /\ db[l].parent = parent /\ db[l].child = child

\* The document has one assay with exactly one data file of type "Raw Image
\* Data File", and that file exists.
OneAssayOneImage ==
    /\ OneStudy
    /\ ~IsNone(assay_data(data))
    /\ Len(assay_data(data).items) = 1
    /\ LET files == Get(assay_data(data).items[1], "dataFiles", JList(<<>>)).items
           raw == {x \in DOMAIN files :
                     Get(files[x], "type", JNull) = JStr("Raw Image Data File")}
       IN  /\ Cardinality(raw) = 1
           /\ \A x \in raw : Get(files[x], "name", JStr("")).s \in ExistingFiles

\* C16: the import of a document with one study, one assay and one raw image
\* data file at an existing path, once it has returned after a successful
\* upload, has persisted exactly one project, one dataset linked to it and
\* one image linked to the dataset, and nothing else but the annotations of
\* the project and the dataset, each linked to its parent.
C16_OneProjectDatasetImage ==
    (/\ pc = <<"done">>
     /\ OneAssayOneImage
     /\ \E x \in DOMAIN calls : calls[x].op = "upload" /\ calls[x].n > calls[x].at) =>
        /\ RowsOfType("Project") = {project.id}
        /\ Cardinality(RowsOfType("Dataset")) = 1
        /\ Cardinality(RowsOfType("Image")) = 1
        /\ \A d \in RowsOfType("Dataset") :
              /\ Linked("ProjectDatasetLink", project.id, d)
              /\ \A m \in RowsOfType("Image") : Linked("DatasetImageLink", d, m)
        /\ Cardinality({l \in RowsOfType("Link") :
                          db[l].name \in {"ProjectDatasetLink", "DatasetImageLink"}}) = 2
        /\ \A r \in DOMAIN db :
              db[r].type \in {"Project", "Dataset", "Image", "Link", "MapAnnotation"}
        /\ \A a \in RowsOfType("MapAnnotation") :
              \E p \in RowsOfType("Project") \cup RowsOfType("Dataset") :
                  Linked(db[p].type \o "AnnotationLink", p, a)

\* C16, the case the claim is about: such an import has returned with its
\* image uploaded.
C16_Witness ==
    /\ pc = <<"done">>
    /\ OneAssayOneImage
    /\ Cardinality(RowsOfType("Image")) = 1

(***************************************************************************)
(* isa_packer.py: IsaPacker.pack, and the round trip through the importer. *)
(***************************************************************************)
\* OmeroDatasetMapper.__init__: isa_attribute_config of a dataset.
DatasetConfig ==
    Config("assay", "ISA:ASSAY:ASSAY", <<KV("filename", JStr(""))>>,
           <<"measurement_type", "technology_type">>)

\* isa_attributes[annotation_type] of the project mapper of p.
ProjectAttribute(p, annotation_type) ==
    LET x == CHOOSE y \in 1..Len(ProjectConfig(p)) :
                 ProjectConfig(p)[y].type = annotation_type
    IN  CreateIsaAttribute(ProjectConfig(p)[x], p.annotations)

\* The exception _create_isa_attributes raises on the project, "" when none.
ProjectAttributesCheck(p) ==
    IF \E x \in 1..Len(ProjectConfig(p)) :
          CreateIsaAttribute(ProjectConfig(p)[x], p.annotations).exc # ""
    THEN LET x == CHOOSE y \in 1..Len(ProjectConfig(p)) :
                    /\ CreateIsaAttribute(ProjectConfig(p)[y], p.annotations).exc # ""
                    /\ \A z \in 1..(y - 1) :
                          CreateIsaAttribute(ProjectConfig(p)[z], p.annotations).exc = ""
         IN  CreateIsaAttribute(ProjectConfig(p)[x], p.annotations).exc
    ELSE ""

\* The images of a dataset are numbered in the order getObjects returns
\* them; image x was imported from the file img<x>.tif.
ImageStem(x) == "img" \o ToString(x)
ImageFile(x) == ImageStem(x) \o ".tif"

\* get_image_metadata_omero(image): the comments the importer reads back;
\* the acquisition and pixel comments are not part of the model.
get_image_metadata_omero(x) ==
    <<Comment("omero_image_id", JStr(ToString(x))),
      Comment("name", JStr(ImageStem(x))),
      Comment("description", JStr(""))>>

\* export_rois_to_json: the entry written for one ROI; the model's shapes
\* hold the type and the plane, not the geometry.
RoiData(roi_id, roi) ==
    RoiEntry(roi_id, [y \in 1..Len(roi) |->
                        JDict(<<KV("type", JStr(roi[y].type)), KV("z", JNum(roi[y].z)),
                                KV("t", JNum(roi[y].t)), KV("c", JNum(roi[y].c))>>)])

\* A variant of export_rois_to_json that leaves out the ROIs without shapes.
export_rois_with_shapes(json_path, rois) ==
    LET kept == SelectSeq(rois, LAMBDA roi : Len(roi) > 0)
        roi_data_list == [x \in 1..Len(kept) |-> RoiData(x, kept[x])]
    IN  IF Len(roi_data_list) > 0
        THEN [res |-> JStr(json_path),
              written |-> <<[path |-> json_path, content |-> JList(roi_data_list)]>>]
        ELSE [res |-> JNull, written |-> <<>>]

\* export_rois_to_json(json_path, image, conn): the path returned and the
\* files written, for the ROIs findByImage returns.
export_rois_to_json(json_path, rois) ==
    LET roi_data_list == [x \in 1..Len(rois) |-> RoiData(x, rois[x])]
    IN  IF Len(roi_data_list) > 0
        THEN [res |-> JStr(json_path),
              written |-> <<[path |-> json_path, content |-> JList(roi_data_list)]>>]
        ELSE [res |-> JNull, written |-> <<>>]

\* self.assay_identifier
assay_identifier(d) == lower_hyphen(d.name)
\* dest_image_folder_rel
dest_image_folder_rel(d) == "assays/" \o assay_identifier(d) \o "/dataset"
\* roi_path: the image file's path with the stem extended by _roidata and
\* the suffix .json
roi_path(d, x) == dest_image_folder_rel(d) \o "/" \o ImageStem(x) \o "_roidata.json"
\* roidata_path.name
roi_path_name(x) == ImageStem(x) \o "_roidata.json"

\* The DataFile _create_assay builds for image x of dataset d.
img_datafile(d, x) ==
    LET roidata_path == export_rois_to_json(roi_path(d, x), d.images[x].rois).res
        image_metadata ==
            get_image_metadata_omero(x)
            \o (IF ~IsNone(roidata_path)
                THEN <<Comment("roidata_filename", JStr(roi_path_name(x)))>>
                ELSE <<>>)
    IN  DataFile("Raw Image Data File",
                 <<KV("name", JStr(dest_image_folder_rel(d) \o "/" \o ImageFile(x)))>>,
                 image_metadata)

\* A variant of the exported assay whose identifier comment comes first.
AssayJsonIdentifierFirst(d) ==
    LET params == JDict(CreateIsaAttribute(DatasetConfig, d.annotations).values[1])
    IN  JDict(<<KV("comments",
                   JList(<<Comment("identifier", JStr(assay_identifier(d)))>>
                         \o Item(params, "comments").items)),
                KV("dataFiles", JList([x \in 1..Len(d.images) |-> img_datafile(d, x)])),
                KV("filename", Get(params, "filename", JStr("")))>>)

\* OmeroDatasetMapper._create_assay as save_as_json writes it: the assay
\* parameters with the identifier comment added, and one DataFile per image.
AssayJson(d) ==
    LET params == JDict(CreateIsaAttribute(DatasetConfig, d.annotations).values[1])
    IN  JDict(<<KV("comments",
                   JList(Item(params, "comments").items
                         \o <<Comment("identifier", JStr(assay_identifier(d)))>>)),
                KV("dataFiles", JList([x \in 1..Len(d.images) |-> img_datafile(d, x)])),
                KV("filename", Get(params, "filename", JStr("")))>>)

\* The calls of export_rois_to_json _create_assay makes from image x on,
\* each followed by the file it wrote, if any.
RECURSIVE ExportCalls(_, _)
ExportCalls(d, x) ==
    IF x > Len(d.images) THEN <<>>
    ELSE LET r == export_rois_to_json(roi_path(d, x), d.images[x].rois) IN
        <<Event("export_rois_to_json", "create_assay", x, Len(d.images[x].rois),
                r.res, "", 0, Len(r.written))>>
        \o [y \in 1..Len(r.written) |->
               Event("write", "export_rois_to_json", x, Len(r.written[y].content.items),
                     JStr(r.written[y].path), "", 0, 0)]
        \o ExportCalls(d, x + 1)

\* json.dumps(..., cls=ISAJSONEncoder) of an OntologyAnnotation.
OntologyAnnotationJson(oa) ==
    JDict(<<KV("annotationValue", Get(oa, "term", JStr(""))),
            KV("termAccession", Get(oa, "term_accession", JStr(""))),
            KV("termSource", IF HasKey(oa, "term_source")
                             THEN Item(Item(oa, "term_source"), "name")
                             ELSE JStr("")),
            KV("comments", JList(<<>>))>>)

\* How the mappers attach the ontology annotation of a field to the ISA
\* object: Person.roles and the study's ontology fields hold a list of one,
\* Publication.status and the assay's types hold the annotation itself.
AttachOntology(annotation_type, oa) ==
    IF annotation_type \in {"investigation_contacts", "study"}
    THEN JList(<<OntologyAnnotationJson(oa)>>)
    ELSE OntologyAnnotationJson(oa)

\* The ISA object built from one values entry and its ontology_values entry,
\* as it is written to JSON.
IsaObjectJson(annotation_type, values, ontology_values) ==
    JDict(values \o [y \in 1..Len(ontology_values) |->
                        KV(ontology_values[y].k,
                           AttachOntology(annotation_type, ontology_values[y].v))])

\* zip(values, ontology_values) of an annotation type, each pair as the ISA
\* object built from it; no object when the type has no entry.
IsaObjects(p, annotation_type) ==
    LET a == ProjectAttribute(p, annotation_type)
        n == IF Len(a.values) <= Len(a.ontology_values)
             THEN Len(a.values) ELSE Len(a.ontology_values)
    IN  [x \in 1..n |-> IsaObjectJson(annotation_type, a.values[x], a.ontology_values[x])]

\* OntologySource(**ontology_source_params) as save_as_json writes it.
OntologySourceJson(p) ==
    LET params == JDict(ProjectAttribute(p, "investigation_ontology_source_reference")
                            .values[1])
    IN  JDict(<<KV("comments", Item(params, "comments")),
                KV("description", Get(params, "description", JStr(""))),
                KV("file", Get(params, "file", JStr(""))),
                KV("name", Get(params, "name", JStr("")))>>)

\* _create_investigation as save_as_json writes it: the study built from
\* isa_attributes["study"]["values"][0] and ["ontology_values"][0], with its
\* publications and one assay per dataset.
StudyJson(p) ==
    LET params == JDict(ProjectAttribute(p, "study").values[1])
        ontology == ProjectAttribute(p, "study").ontology_values[1]
    IN  JDict(<<KV("assays", JList([x \in 1..Len(p.datasets) |-> AssayJson(p.datasets[x])])),
                KV("comments", Item(params, "comments")),
                KV("description", Get(params, "description", JStr(""))),
                KV("filename", Get(params, "filename", JStr(""))),
                KV("identifier", Get(params, "identifier", JStr(""))),
                KV("publications", JList(IsaObjects(p, "study_publications"))),
                KV("title", Get(params, "title", JStr("")))>>
              \o [y \in 1..Len(ontology) |->
                     KV(ontology[y].k, AttachOntology("study", ontology[y].v))])

\* The investigation built from isa_attributes["investigation"]["values"][0],
\* with its contacts, ontology source reference, publications and study.
InvestigationJson(p) ==
    LET params == JDict(ProjectAttribute(p, "investigation").values[1])
    IN  JDict(<<KV("comments", Item(params, "comments")),
                KV("description", Get(params, "description", JStr(""))),
                KV("identifier", Get(params, "identifier", JStr(""))),
                KV("ontologySourceReferences", JList(<<OntologySourceJson(p)>>)),
                KV("people", JList(IsaObjects(p, "investigation_contacts"))),
                KV("publications", JList(IsaObjects(p, "investigation_publications"))),
                KV("studies", JList(<<StudyJson(p)>>)),
                KV("title", Get(params, "title", JStr("")))>>)

\* study.assays.insert(0, assay) in place of append: the latest assay comes
\* first.
AppendAssayFirst(inv, a) ==
    LET study == study_data(inv)
        assays == <<a>> \o Item(study, "assays").items
    IN  JDict(SetKey(inv.kv, "studies",
                     JList(<<JDict(SetKey(study.kv, "assays", JList(assays)))>>)))

\* study.assays.append(dataset_mapper.assay) on the investigation held.
AppendAssay(inv, a) ==
    LET study == study_data(inv)
        assays == Append(Item(study, "assays").items, a)
    IN  JDict(SetKey(inv.kv, "studies",
                     JList(<<JDict(SetKey(study.kv, "assays", JList(assays)))>>)))

\* The entries of isa_attributes _create_isa_attributes leaves on the mapper.
ProjectAttributes(p) ==
    SelectSeq([x \in 1..Len(ProjectConfig(p)) |->
                  CreateIsaAttribute(ProjectConfig(p)[x], p.annotations)],
              LAMBDA a : a.present)

\* The annotations linked to the row parent, in the order they were saved.
LinkedAnnotations(rows, parent) ==
    SelectSeq(rows, LAMBDA r :
        /\ r.type = "MapAnnotation"
        /\ \E l \in DOMAIN rows :
              /\ rows[l].type = "Link"
              /\ rows[l].parent = parent
              /\ rows[l].child = r.id)

\* conn.getObjects("Image", opts={"dataset": id}), each image with the ROIs
\* findByImage returns for it.
ImagesInDb(rows, id) ==
    LET linked == SelectSeq(rows, LAMBDA r :
                    /\ r.type = "Image"
                    /\ \E l \in DOMAIN rows :
                          /\ rows[l].type = "Link"
                          /\ rows[l].name = "DatasetImageLink"
                          /\ rows[l].parent = id
                          /\ rows[l].child = r.id)
    IN  [x \in 1..Len(linked) |->
            [rois |-> LET found == SelectSeq(rows, LAMBDA r :
                                      r.type = "Roi" /\ r.image = linked[x].id)
                      IN  [y \in 1..Len(found) |-> found[y].shapes]]]

\* conn.getObjects("Dataset", opts={"project": id}) and the project itself,
\* as the mappers read them from the database.
ProjectInDb(rows, id) ==
    [name |-> rows[id].name, desc |-> rows[id].desc,
     annotations |-> LinkedAnnotations(rows, id),
     datasets |->
        LET linked == SelectSeq(rows, LAMBDA r :
                        /\ r.type = "Dataset"
                        /\ \E l \in DOMAIN rows :
                              /\ rows[l].type = "Link"
                              /\ rows[l].name = "ProjectDatasetLink"
                              /\ rows[l].parent = id
                              /\ rows[l].child = r.id)
        IN  [x \in 1..Len(linked) |->
                [name |-> linked[x].name,
                 annotations |-> LinkedAnnotations(rows, linked[x].id),
                 images |-> ImagesInDb(rows, linked[x].id)]]]

\* pack(), up to the loop over the datasets: the project mapper creates the
\* investigation, which holds one study without assays.
CreateInvestigation ==
    /\ pc = <<"pack">>
    /\ err' = ProjectAttributesCheck(ome_project)
    /\ IF ProjectAttributesCheck(ome_project) = ""
       THEN /\ isa_attributes' = ProjectAttributes(ome_project)
            /\ investigation' = InvestigationJson([ome_project EXCEPT !.datasets = <<>>])
            /\ calls' = Append(calls, Event("_create_investigation", "pack", 0, 0,
                                            0, "", 0, 0))
            /\ k' = 1
            /\ pc' = <<"pack_datasets">>
       ELSE /\ pc' = <<"failed">>
            /\ UNCHANGED <<isa_attributes, investigation, calls, k>>
    /\ UNCHANGED <<data, project_name, importer, assay, parent_object,
                   target_image, ome_project, db, project, dataset, i, j>>

\* pack(), one turn of the loop over the datasets: the dataset is mapped,
\* which exports its images and ROIs, and its assay is appended.
MapDataset ==
    /\ pc = <<"pack_datasets">>
    /\ k <= Len(ome_project.datasets)
    /\ LET d == ome_project.datasets[k]
           r == CreateIsaAttribute(DatasetConfig, d.annotations) IN
        /\ err' = r.exc
        /\ IF r.exc = ""
           THEN /\ investigation' = AppendAssay(investigation, AssayJson(d))
                /\ calls' = calls \o ExportCalls(d, 1)
                              \o <<Event("append", "pack", k, Len(ome_project.datasets),
                                         0, "", 0, 0)>>
                /\ k' = k + 1
                /\ pc' = pc
           ELSE /\ pc' = <<"failed">>
                /\ UNCHANGED <<investigation, calls, k>>
    /\ UNCHANGED <<data, project_name, importer, assay, parent_object,
                   target_image, ome_project, isa_attributes, db, project,
                   dataset, i, j>>

\* pack(), after the loop: save_as_tab, then save_as_json; the JSON written
\* is what the importer is given.
SaveInvestigation ==
    /\ pc = <<"pack_datasets">>
    /\ k > Len(ome_project.datasets)
    /\ data' = investigation
    /\ calls' = calls \o <<Event("save_as_tab", "pack", 0, 0, 0, "", 0, 0),
                            Event("save_as_json", "pack", 0, 0, 0, "", 0, 0)>>
    /\ k' = 0
    /\ pc' = <<"new">>
    /\ UNCHANGED <<project_name, importer, assay, parent_object, target_image,
                   ome_project, isa_attributes, err, db, project, dataset, i, j,
                   investigation>>

\* pack() on the project the importer has returned.
Repack ==
    /\ pc = <<"done">>
    /\ err' = ProjectAttributesCheck(ProjectInDb(db, project.id))
    /\ IF ProjectAttributesCheck(ProjectInDb(db, project.id)) = ""
       THEN /\ investigation' = InvestigationJson(ProjectInDb(db, project.id))
            /\ pc' = <<"repacked">>
       ELSE /\ pc' = <<"failed">>
            /\ UNCHANGED investigation
    /\ UNCHANGED <<data, project_name, importer, assay, parent_object,
                   target_image, ome_project, isa_attributes, db, calls,
                   project, dataset, i, j, k>>

\* The projects the round trip starts from.
StudyAnnotations ==
    {<<>>,
     <<Stored("ISA:STUDY:STUDY", <<SV("identifier", "my-custom-study-id")>>)>>,
     <<Stored("ISA:STUDY:STUDY",
              <<SV("identifier", "my-custom-study-id"),
                SV("title", "My Custom Study Title"),
                SV("description", "My custom description.")>>)>>}
DatasetNames == {"My Assay with Annotations", "my-first-assay"}
PackInputs ==
    {[name |-> n, desc |-> d, annotations |-> a,
      datasets |-> [x \in DOMAIN ds |->
                      [name |-> ds[x], annotations |-> <<>>, images |-> <<>>]]] :
        n \in {"My First Study", "my-first-study"},
        d \in {"", "A description"},
        a \in StudyAnnotations,
        ds \in SeqsUpTo(DatasetNames, MaxAssays)}

InitRoundTrip ==
    /\ data = JNull
    /\ project_name = JNull
    /\ importer = NoImporter
    /\ assay = JNull
    /\ parent_object = NoObj
    /\ target_image = NoObj
    /\ ome_project \in PackInputs
    /\ isa_attributes = <<>>
    /\ pc = <<"pack">>
    /\ err = ""
    /\ db = <<>>
    /\ calls = <<>>
    /\ project = NoObj
    /\ dataset = NoObj
    /\ i = 0
    /\ j = 0
    /\ k = 0
    /\ investigation = JNull

NextRoundTrip ==
    \/ CreateInvestigation
    \/ MapDataset
    \/ SaveInvestigation
    \/ Construct
    \/ SaveProject
    \/ AnnotateProject
    \/ NextAssay
    \/ ReturnProject
    \/ DatasetSave
    \/ AnnotateDataset
    \/ LinkDataset
    \/ Repack

SpecRoundTrip == InitRoundTrip /\ [][NextRoundTrip]_vars


\* The keys of the ISA:STUDY:STUDY annotations stored on the project p.
StudyAnnotationKeys(p) ==
    UNION {{p.annotations[x].map[y].k : y \in 1..Len(p.annotations[x].map)} :
              x \in {z \in 1..Len(p.annotations) :
                        p.annotations[z].ns = "ISA:STUDY:STUDY"}}

AllConfigs ==
    ProjectConfig([name |-> "My First Study", desc |-> ""]) \o <<DatasetConfig>>

\* The configured ontology annotation fields, as <<config, field>> positions.
OntologyFields ==
    {<<c, f>> : c \in 1..Len(AllConfigs), f \in 1..2} \cap
    {cf \in (1..Len(AllConfigs)) \X (1..2) :
        cf[2] <= Len(AllConfigs[cf[1]].ontology_annotations)}

\* The fragments decoded first: the anchor of the config's namespace, a
\* plain field or none, and the field's ontology annotation sub-object.
OntologyInputs(cf) ==
    {JDict(<<KV("comments", JList(<<Anchor(AllConfigs[cf[1]].namespace)>>))>>
           \o plain
           \o <<KV(AllConfigs[cf[1]].ontology_annotations[cf[2]],
                   OntologyAnnotation(JStr("published"), accession, source))>>) :
        plain \in {<<>>, <<KV("title", JStr("A paper"))>>},
        accession \in {JStr("EFO_1"), JStr("")},
        source \in {JStr("EFO"), JNull}}

\* MappedAnnotationFactory(data): the fragment becomes a stored annotation.
OntologyDecode ==
    /\ pc = <<"ontology_decode">>
    /\ LET maf == MappedAnnotationFactory(data) IN
        /\ err' = maf.exc
        /\ ome_project' = [name |-> "My First Study", desc |-> "",
                           annotations |-> IF maf.exc = "" THEN <<maf.map_annotation>>
                                           ELSE <<>>]
        /\ pc' = IF maf.exc = "" THEN <<"ontology_encode">> ELSE <<"failed">>
    /\ UNCHANGED <<data, project_name, importer, assay, parent_object,
                   target_image, isa_attributes, db, calls, project, dataset,
                   i, j, k, investigation>>

\* _create_isa_attributes for the config of the field, on that annotation.
OntologyEncode ==
    /\ pc = <<"ontology_encode">>
    /\ LET r == CreateIsaAttribute(AllConfigs[k], ome_project.annotations) IN
        /\ err' = r.exc
        /\ isa_attributes' = IF r.present THEN <<r>> ELSE <<>>
        /\ pc' = IF r.exc # "" THEN <<"failed">>
                 ELSE IF r.present THEN <<"ontology_write">>
                 ELSE <<"deleted">>
    /\ UNCHANGED <<data, project_name, importer, assay, parent_object,
                   target_image, ome_project, db, calls, project, dataset, i,
                   j, k, investigation>>

\* The ISA object of the first values entry is built and written.
OntologyWrite ==
    /\ pc = <<"ontology_write">>
    /\ investigation' = IsaObjectJson(isa_attributes[1].type,
                                      isa_attributes[1].values[1],
                                      isa_attributes[1].ontology_values[1])
    /\ pc' = <<"ontology_redecode">>
    /\ UNCHANGED <<data, project_name, importer, assay, parent_object,
                   target_image, ome_project, isa_attributes, err, db, calls,
                   project, dataset, i, j, k>>

\* MappedAnnotationFactory on the written object.
OntologyRedecode ==
    /\ pc = <<"ontology_redecode">>
    /\ LET maf == MappedAnnotationFactory(investigation) IN
        /\ err' = maf.exc
        /\ project' = maf.map_annotation
        /\ pc' = IF maf.exc = "" THEN <<"done">> ELSE <<"failed">>
    /\ UNCHANGED <<data, project_name, importer, assay, parent_object,
                   target_image, ome_project, isa_attributes, db, calls,
                   dataset, i, j, k, investigation>>

InitOntology ==
    /\ \E cf \in OntologyFields :
        /\ k = cf[1]
        /\ j = cf[2]
        /\ data \in OntologyInputs(cf)
    /\ project_name = JNull
    /\ importer = NoImporter
    /\ assay = JNull
    /\ parent_object = NoObj
    /\ target_image = NoObj
    /\ ome_project = NoObj
    /\ isa_attributes = <<>>
    /\ pc = <<"ontology_decode">>
    /\ err = ""
    /\ db = <<>>
    /\ calls = <<>>
    /\ project = NoObj
    /\ dataset = NoObj
    /\ i = 0
    /\ investigation = JNull

NextOntology ==
    \/ OntologyDecode
    \/ OntologyEncode
    \/ OntologyWrite
    \/ OntologyRedecode

SpecOntology == InitOntology /\ [][NextOntology]_vars


\* The values stored under key in the map of a stored annotation.
MapValues(map, key) == {map[x].v : x \in {y \in 1..Len(map) : map[y].k = key}}

\* The field of the ontology annotation being taken round.
OntologyField == AllConfigs[k].ontology_annotations[j]
\* The three keys the field expands to, with the member each one holds.
OntologyKeys ==
    {<<"_term", "annotationValue", "term">>,
     <<"_term_accession", "termAccession", "term_accession">>,
     <<"_term_source", "termSource", "term_source">>}

\* C18: decoding the sub-object of a configured ontology field yields the
\* keys <field>_term, <field>_term_accession and <field>_term_source;
\* encoding the stored annotation groups them into one ontology annotation of
\* <field> with the same three values; and decoding what was encoded yields
\* the same three keys and values again.
C18_OntologyExpansionInvertible ==
    /\ pc # <<"ontology_decode">> =>
          /\ pc # <<"failed">>
          /\ Len(ome_project.annotations) = 1
          /\ \A key \in OntologyKeys :
                MapValues(ome_project.annotations[1].map, OntologyField \o key[1])
                    = {PyStr(Item(Item(data, OntologyField), key[2]))}
    /\ pc \notin {<<"ontology_decode">>, <<"ontology_encode">>} =>
          /\ pc # <<"deleted">>
          /\ Len(isa_attributes) = 1
          /\ Len(isa_attributes[1].ontology_values) = 1
          /\ LET ontology_value == JDict(isa_attributes[1].ontology_values[1]) IN
                /\ HasKey(ontology_value, OntologyField)
                /\ \A key \in OntologyKeys :
                      LET member == Get(Item(ontology_value, OntologyField), key[3], JNull)
                          value == IF key[3] = "term_source" /\ member.t = "dict"
                                   THEN Item(member, "name") ELSE member
                      IN  {PyStr(value)}
                            = MapValues(ome_project.annotations[1].map,
                                        OntologyField \o key[1])
    /\ pc = <<"done">> =>
          \A key \in OntologyKeys :
              MapValues(project.map, OntologyField \o key[1])
                  = MapValues(ome_project.annotations[1].map, OntologyField \o key[1])

\* C18 witness: the status of a publication with a title has been decoded,
\* encoded and decoded again, and the three keys came back as they were.
C18_Witness ==
    /\ pc = <<"done">>
    /\ OntologyField = "status"
    /\ MapValues(project.map, "status_term") = {"published"}
    /\ MapValues(project.map, "status_term_source") = {"EFO"}
    /\ MapValues(project.map, "status_term_accession") = {"EFO_1"}


(***************************************************************************)
(* isa_mapping.py: OmeroDatasetMapper, the export of one dataset.           *)
(***************************************************************************)
\* OmeroDatasetMapper(dataset, ...): __init__ runs _create_assay.
CreateAssay ==
    /\ pc = <<"create_assay">>
    /\ LET r == CreateIsaAttribute(DatasetConfig, dataset.annotations) IN
        /\ err' = r.exc
        /\ IF r.exc = ""
           THEN /\ assay' = AssayJson(dataset)
                /\ calls' = calls \o ExportCalls(dataset, 1)
                /\ pc' = <<"done">>
           ELSE /\ pc' = <<"failed">>
                /\ UNCHANGED <<assay, calls>>
    /\ UNCHANGED <<data, project_name, importer, parent_object, target_image,
                   ome_project, isa_attributes, db, project, dataset, i, j, k,
                   investigation>>

\* The ROIs of an image: each one without shapes or with MaxShapes points.
ShapeLists ==
    {<<>>, [y \in 1..MaxShapes |-> [type |-> "PointI", z |-> y, t |-> 0, c |-> 0]]}
RoiKinds == {[rois |-> rs] : rs \in SeqsUpTo(ShapeLists, MaxRois)}

\* The datasets exported: every name with up to one image, and the names of
\* up to one character with up to MaxFiles images.
ExportedDatasets ==
    {[name |-> Join(cs), annotations |-> <<>>, images |-> im] :
        cs \in Names, im \in SeqsUpTo(RoiKinds, 1)}
    \cup {[name |-> Join(cs), annotations |-> <<>>, images |-> im] :
        cs \in SeqsUpTo(Alphabet, 1), im \in SeqsUpTo(RoiKinds, MaxFiles)}

InitAssay ==
    /\ data = JNull
    /\ project_name = JNull
    /\ importer = NoImporter
    /\ assay = JNull
    /\ parent_object = NoObj
    /\ target_image = NoObj
    /\ ome_project = NoObj
    /\ isa_attributes = <<>>
    /\ pc = <<"create_assay">>
    /\ err = ""
    /\ db = <<>>
    /\ calls = <<>>
    /\ project = NoObj
    /\ dataset \in ExportedDatasets
    /\ i = 0
    /\ j = 0
    /\ k = 0
    /\ investigation = JNull

NextCreateAssay == CreateAssay

SpecAssay == InitAssay /\ [][NextCreateAssay]_vars

\* The comments of the exported assay named "identifier".
AssayIdentifiers ==
    SelectSeq(Item(assay, "comments").items,
              LAMBDA c : Get(c, "name", JNull) = JStr("identifier"))

\* C19: the assay identifier is the dataset name with every upper-case
\* letter lowered and every space replaced by a hyphen; deriving it again
\* from itself changes nothing; the folder of every data file is
\* assays/<that identifier>/dataset, and the identifier comment, which the
\* importer takes as the dataset name, holds the same string.
C19_OneDerivedIdentifier ==
    pc = <<"done">> =>
        LET name == Chars(dataset.name)
            id == AssayIdentifiers[1].kv
            identifier == Chars(Item(JDict(id), "value").s)
        IN  /\ Len(AssayIdentifiers) = 1
            /\ Len(identifier) = Len(name)
            /\ \A x \in 1..Len(name) :
                  identifier[x] = CASE name[x] = "M" -> "m"
                                    [] name[x] = " " -> "-"
                                    [] OTHER -> name[x]
            /\ lower_hyphen(Join(identifier)) = Join(identifier)
            /\ \A x \in 1..Len(dataset.images) :
                  Item(Item(assay, "dataFiles").items[x], "name")
                      = JStr("assays/" \o Join(identifier) \o "/dataset/" \o ImageFile(x))
            /\ DatasetName(Item(assay, "comments").items, 1)
                  = [exc |-> "", name |-> JStr(Join(identifier))]

\* C19 witness: a dataset named "M m" with one image has been exported as
\* the assay "m-m".
C19_Witness ==
    /\ pc = <<"done">>
    /\ dataset.name = "M m"
    /\ Len(dataset.images) = 1
    /\ Item(Item(assay, "dataFiles").items[1], "name") = JStr("assays/m-m/dataset/img1.tif")
    /\ DatasetName(Item(assay, "comments").items, 1).name = JStr("m-m")


\* The comments of data file x of the exported assay named "roidata_filename".
RoiComments(x) ==
    SelectSeq(Item(Item(assay, "dataFiles").items[x], "comments").items,
              LAMBDA c : Get(c, "name", JNull) = JStr("roidata_filename"))
\* The calls of op made for image x during the export.
ExportEvents(op, x) == {e \in DOMAIN calls : calls[e].op = op /\ calls[e].arg = x}

PackAnnotations ==
    {Stored("ISA:STUDY:STUDY", <<SV("identifier", "my-custom-study-id")>>),
     Stored("ISA:STUDY:STUDY", <<SV("title", "My Custom Study Title")>>),
     Stored("ISA:INVESTIGATION:ONTOLOGY SOURCE REFERENCE",
            <<SV("Term Source Name", "EFO"),
              SV("Term Source File", "http://www.ebi.ac.uk/efo/releases/v3.14.0/efo.owl"),
              SV("Term Source Description", "Experimental Factor Ontology")>>),
     Stored("ISA:INVESTIGATION:ONTOLOGY SOURCE REFERENCE",
            <<SV("name", "EFO"), SV("description", "Experimental Factor Ontology")>>),
     Stored("ISA:INVESTIGATION:INVESTIGATION",
            <<SV("identifier", "my-custom-investigation-id")>>),
     Stored("ISA:INVESTIGATION:INVESTIGATION PUBLICATIONS",
            <<SV("doi", "10.1038/s41467-022-34205-9"), SV("status_term", "published")>>),
     Stored("These Values are not relevant for ARCs", <<SV("color 1", "red")>>)}

\* The datasets of a project: one with an assay annotation and no image,
\* one without annotation whose one image has one ROI.
PackDatasets ==
    {[name |-> "My Assay with Annotations",
      annotations |-> <<Stored("ISA:ASSAY:ASSAY", <<SV("filename", "a_assay.txt")>>)>>,
      images |-> <<>>],
     [name |-> "my-first-assay", annotations |-> <<>>,
      images |-> <<[rois |-> << <<[type |-> "PointI", z |-> 0, t |-> 0, c |-> 0]>> >>]>>]}

PackProjects ==
    {[name |-> "My First Study", desc |-> "", annotations |-> a, datasets |-> ds] :
        a \in SeqsUpTo(PackAnnotations, MaxAnnotations),
        ds \in SeqsUpTo(PackDatasets, MaxAssays)}

InitPack ==
    /\ data = JNull
    /\ project_name = JNull
    /\ importer = NoImporter
    /\ assay = JNull
    /\ parent_object = NoObj
    /\ target_image = NoObj
    /\ ome_project \in PackProjects
    /\ isa_attributes = <<>>
    /\ pc = <<"pack">>
    /\ err = ""
    /\ db = <<>>
    /\ calls = <<>>
    /\ project = NoObj
    /\ dataset = NoObj
    /\ i = 0
    /\ j = 0
    /\ k = 0
    /\ investigation = JNull

NextPack ==
    \/ CreateInvestigation
    \/ MapDataset
    \/ SaveInvestigation

SpecPack == InitPack /\ [][NextPack]_vars

\* The namespace configured for an annotation type of the project mapper.
NamespaceOf(annotation_type) ==
    LET config == ProjectConfig(ome_project) IN
    config[CHOOSE x \in 1..Len(config) : config[x].type = annotation_type].namespace
\* The comment that anchors an entry to namespace.
NamespaceComment(namespace) ==
    JDict(<<KV("name", JStr("omero_annotation_namespace")), KV("value", JStr(namespace))>>)
\* The positions in the comments of d of the comments called name.
CommentPositions(d, name) ==
    {x \in 1..Len(Item(d, "comments").items) :
        Get(Item(d, "comments").items[x], "name", JNull) = JStr(name)}

\* C21: every entry of every annotation type the encoder produced has a
\* comments list that starts with the namespace comment of its type; the
\* exported study, ontology source reference and assays pass the decoder's
\* anchor check, and an assay's identifier comment comes after its
\* namespace comment.
C21_EntriesAreAnchored ==
    pc \in {<<"pack_datasets">>, <<"new">>} =>
        /\ \A a \in 1..Len(isa_attributes) :
              \A x \in 1..Len(isa_attributes[a].values) :
                  LET entry == JDict(isa_attributes[a].values[x]) IN
                  /\ HasKey(entry, "comments")
                  /\ Len(Item(entry, "comments").items) >= 1
                  /\ Item(entry, "comments").items[1]
                        = NamespaceComment(NamespaceOf(isa_attributes[a].type))
        /\ Item(study_data(investigation), "comments").items[1]
              = NamespaceComment("ISA:STUDY:STUDY")
        /\ AnchorCheck(study_data(investigation)) = ""
        /\ \A o \in 1..Len(Item(investigation, "ontologySourceReferences").items) :
              LET source == Item(investigation, "ontologySourceReferences").items[o] IN
              /\ Item(source, "comments").items[1]
                    = NamespaceComment("ISA:INVESTIGATION:ONTOLOGY SOURCE REFERENCE")
              /\ AnchorCheck(source) = ""
        /\ \A x \in 1..Len(Item(study_data(investigation), "assays").items) :
              LET a == Item(study_data(investigation), "assays").items[x] IN
              /\ Item(a, "comments").items[1] = NamespaceComment("ISA:ASSAY:ASSAY")
              /\ AnchorCheck(a) = ""
              /\ CommentPositions(a, "identifier") # {}
              /\ \A c \in CommentPositions(a, "identifier") : c > 1

\* C21 witness: a project with a stored study annotation and no ontology
\* source annotation has been exported with an annotated dataset; the study
\* entry, the default ontology source and the assay are all anchored.
C21_Witness ==
    /\ pc = <<"new">>
    /\ \E x \in 1..Len(ome_project.annotations) :
          ome_project.annotations[x].ns = "ISA:STUDY:STUDY"
    /\ \A x \in 1..Len(ome_project.annotations) :
          ome_project.annotations[x].ns # "ISA:INVESTIGATION:ONTOLOGY SOURCE REFERENCE"
    /\ Len(Item(study_data(data), "assays").items) = 2
    /\ AnchorCheck(Item(study_data(data), "assays").items[2]) = ""
    /\ AnchorCheck(Item(data, "ontologySourceReferences").items[1]) = ""


\* The keys of the default table of a config.
DefaultKeys(config) == {config.default_values[x].k : x \in 1..Len(config.default_values)}
\* key is <field>_term, <field>_term_accession or <field>_term_source for
\* an ontology field of the config.
IsOntologyKey(config, key) ==
    \E o \in 1..Len(config.ontology_annotations) :
        \E sfx \in {"_term", "_term_accession", "_term_source"} :
            key = config.ontology_annotations[o] \o sfx
\* The entries produced for the config, as mappings.
EntriesOf(config) ==
    UNION {{JDict(isa_attributes[y].values[e]) : e \in 1..Len(isa_attributes[y].values)} :
              y \in {z \in 1..Len(isa_attributes) : isa_attributes[z].type = config.type}}
\* The annotations stored under the namespace of the config.
AnnotationsOf(config) ==
    {x \in 1..Len(ome_project.annotations) :
        ome_project.annotations[x].ns = config.namespace}
\* If annotation a has keys among keys, some entry of the config holds the
\* value stored under each of them.
PassedThrough(config, a, keys) ==
    keys # {} => \E entry \in EntriesOf(config) :
        \A y \in 1..Len(ome_project.annotations[a].map) :
            LET pair == ome_project.annotations[a].map[y] IN
            pair.k \in keys => Get(entry, pair.k, JNull) = JStr(pair.v)
\* The keys of annotation a.
KeysOf(a) ==
    {ome_project.annotations[a].map[y].k : y \in 1..Len(ome_project.annotations[a].map)}

NonNullDefaults(config) ==
    {config.default_values[x] : x \in {y \in 1..Len(config.default_values) :
                                          ~IsNone(config.default_values[y].v)}}
\* The positions in isa_attributes of the entry of an annotation type.
AttributesOf(config) ==
    {y \in 1..Len(isa_attributes) : isa_attributes[y].type = config.type}

\* C23: for a namespace without stored annotation the encoder produces one
\* entry whose fields, apart from the comments, are exactly the defaults
\* that are not None, paired with one empty ontology entry, and produces no
\* entry when every default is None; a project without study annotation is
\* exported as a study titled with the project name, identified by the
\* lowercased, hyphenated project name, without assays before the packer's
\* loop over the datasets.
C23_DefaultsWhenNoAnnotation ==
    pc \in {<<"pack_datasets">>, <<"new">>} =>
        /\ \A x \in 1..Len(ProjectConfig(ome_project)) :
              LET config == ProjectConfig(ome_project)[x] IN
              AnnotationsOf(config) = {} =>
                  IF NonNullDefaults(config) = {}
                  THEN AttributesOf(config) = {}
                  ELSE /\ Cardinality(AttributesOf(config)) = 1
                       /\ \A y \in AttributesOf(config) :
                             /\ Len(isa_attributes[y].values) = 1
                             /\ isa_attributes[y].ontology_values = << <<>> >>
                             /\ {isa_attributes[y].values[1][e] :
                                    e \in {f \in 1..Len(isa_attributes[y].values[1]) :
                                             isa_attributes[y].values[1][f].k # "comments"}}
                                   = NonNullDefaults(config)
        /\ (/\ \A a \in 1..Len(ome_project.annotations) :
                  ome_project.annotations[a].ns # "ISA:STUDY:STUDY"
            /\ ome_project.name = "My First Study") =>
               /\ Item(study_data(investigation), "title") = JStr("My First Study")
               /\ Item(study_data(investigation), "identifier") = JStr("my-first-study")
               /\ (pc = <<"pack_datasets">> /\ k = 1) =>
                      Item(study_data(investigation), "assays").items = <<>>

\* C23 witness: a project without any annotation and with two datasets has
\* had its investigation created, and no dataset has been mapped yet.
C23_Witness ==
    /\ pc = <<"pack_datasets">>
    /\ k = 1
    /\ ome_project.annotations = <<>>
    /\ Len(ome_project.datasets) = 2
    /\ Item(study_data(investigation), "assays").items = <<>>
    /\ Len(isa_attributes) = 4


\* The values the first annotation stored under namespace holds under key;
\* empty when there is no such annotation or it has no such key.
FirstStored(namespace, key) ==
    LET stored == SelectSeq(ome_project.annotations, LAMBDA a : a.ns = namespace)
    IN  IF stored = <<>> THEN {}
        ELSE {stored[1].map[y].v : y \in {z \in 1..Len(stored[1].map) :
                                             stored[1].map[z].k = key}}

\* C24: in the exported JSON the first ontology source reference has the
\* description the project's ontology source annotation stores, be it under
\* 'Term Source Description' as in the fixture or under 'description', and
\* the investigation and the study have the identifiers their annotations
\* store.
C24_StoredValuesOverrideDefaults ==
    pc = <<"new">> =>
        /\ \A key \in {"Term Source Description", "description"} :
              \A v \in FirstStored("ISA:INVESTIGATION:ONTOLOGY SOURCE REFERENCE", key) :
                  Item(Item(data, "ontologySourceReferences").items[1], "description")
                      = JStr(v)
        /\ \A v \in FirstStored("ISA:INVESTIGATION:INVESTIGATION", "identifier") :
              Item(data, "identifier") = JStr(v)
        /\ \A v \in FirstStored("ISA:STUDY:STUDY", "identifier") :
              Item(study_data(data), "identifier") = JStr(v)

\* C24, the case of the fixture: the project stores 'Term Source
\* Description' and an investigation identifier; the export has the
\* identifier and an empty source description.
C24_Witness ==
    /\ pc = <<"new">>
    /\ FirstStored("ISA:INVESTIGATION:ONTOLOGY SOURCE REFERENCE", "Term Source Description")
          = {"Experimental Factor Ontology"}
    /\ FirstStored("ISA:INVESTIGATION:INVESTIGATION", "identifier")
          = {"my-custom-investigation-id"}
    /\ Item(data, "identifier") = JStr("my-custom-investigation-id")
    /\ Item(Item(data, "ontologySourceReferences").items[1], "description") = JStr("")


\* The number of events op among the first n calls.
CountCalls(op, n) == Cardinality({x \in 1..n : calls[x].op = op})

\* C25: while pack() runs and after it, the investigation has exactly one
\* study, however many ISA:STUDY:STUDY annotations the project carries; the
\* study's assays are the assays of the datasets mapped so far, in the order
\* of the datasets, hence one per dataset after pack(); and each of the two
\* serialisations is written after every dataset's assay was appended, the
\* tab one before the JSON one.
C25_OneStudyOneAssayPerDataset ==
    LET datasets == ome_project.datasets
        mapped == IF pc = <<"new">> THEN Len(datasets) ELSE k - 1 IN
    /\ pc \in {<<"pack_datasets">>, <<"new">>} =>
          /\ Len(Item(investigation, "studies").items) = 1
          /\ Item(study_data(investigation), "assays")
                = JList([x \in 1..mapped |-> AssayJson(datasets[x])])
    /\ pc = <<"new">> => data = investigation
    /\ \A x \in 1..Len(calls) :
          calls[x].op \in {"save_as_tab", "save_as_json"} =>
              /\ CountCalls("append", x) = Len(datasets)
              /\ CountCalls("append", Len(calls)) = Len(datasets)
              /\ calls[x].op = "save_as_json" => calls[x - 1].op = "save_as_tab"

\* C25: pack() is over for a project with two ISA:STUDY:STUDY annotations
\* and two different datasets; the one study holds their two assays.
C25_Witness ==
    /\ pc = <<"new">>
    /\ Len(SelectSeq(ome_project.annotations, LAMBDA a : a.ns = "ISA:STUDY:STUDY")) = 2
    /\ Len(ome_project.datasets) = 2
    /\ ome_project.datasets[1] # ome_project.datasets[2]
    /\ Len(Item(data, "studies").items) = 1
    /\ Len(Item(study_data(data), "assays").items) = 2
    /\ CountCalls("save_as_json", Len(calls)) = 1


\* The project-level annotation pass is over: the project was saved and the
\* importer is past the pass, or has failed.
ProjectPassOver == project # NoObj /\ Head(pc) # "project_annotations"

\* How many times the fragment f is among: the root document, the non-list
\* top-level values, the elements of the top-level lists, the mapping-valued
\* study fields, the elements of the list-valued study fields but 'assays'.
TimesListed(d, f) ==
    LET study == study_data(d)
        top == {<<x, y>> \in (DOMAIN d.kv) \X (0..Len(ProjectFragments(d))) :
                    IF d.kv[x].v.t = "list"
                    THEN y \in DOMAIN d.kv[x].v.items /\ d.kv[x].v.items[y] = f
                    ELSE y = 0 /\ d.kv[x].v = f}
        low == {<<x, y>> \in (DOMAIN study.kv) \X (0..Len(ProjectFragments(d))) :
                    /\ study.kv[x].k # "assays"
                    /\ IF study.kv[x].v.t = "list"
                       THEN y \in DOMAIN study.kv[x].v.items
                            /\ study.kv[x].v.items[y] = f
                       ELSE y = 0 /\ study.kv[x].v.t = "dict" /\ study.kv[x].v = f}
    IN  (IF d = f THEN 1 ELSE 0) + Cardinality(top) + Cardinality(low)

\* Every fragment of the study's assays: the assays and what the
\* dataset-level pass takes from them.
RECURSIVE AssayFragments(_, _)
AssayFragments(assays, x) ==
    IF x > Len(assays) THEN {}
    ELSE (IF assays[x].t = "dict"
          THEN {DatasetFragments(assays[x])[y] :
                    y \in DOMAIN DatasetFragments(assays[x])}
          ELSE {assays[x]})
         \cup AssayFragments(assays, x + 1)

\* C26: once the project-level pass is over, every fragment was decoded as
\* many times as it is listed (root, top-level values and list elements,
\* mapping-valued study fields, elements of the study's lists but 'assays'),
\* no position of the pass was decoded twice, and the annotations attached to
\* the project are those of the successful decodes of the pass, none of them
\* from inside an assay.
C26_EachFragmentDecodedOnce ==
    ProjectPassOver =>
        LET frags == ProjectFragments(data)
            inside == IF IsNone(assay_data(data)) THEN {}
                      ELSE AssayFragments(assay_data(data).items, 1) IN
        /\ \A f \in {frags[x] : x \in DOMAIN frags} \cup inside :
              Cardinality({c \in ProjectDecodes : frags[calls[c].arg] = f})
                  = TimesListed(data, f)
        /\ \A c1, c2 \in ProjectDecodes : calls[c1].arg = calls[c2].arg => c1 = c2
        /\ Len(LinkedAnnotations(db, project.id))
              = Cardinality({c \in ProjectDecodes : calls[c].exc = ""})

\* C26: the pass is over, having met a first comment that is not a mapping;
\* fewer fragments were decoded than the pass lists.
C26_Witness ==
    /\ ProjectPassOver
    /\ \E c \in ProjectDecodes : calls[c].exc = "AttributeError"
    /\ Cardinality(ProjectDecodes) < Len(ProjectFragments(data))
    /\ \A c1, c2 \in ProjectDecodes : calls[c1].arg = calls[c2].arg => c1 = c2


\* The key-value pairs a decode of the fragment d must hold: each field that
\* is neither list nor mapping under its own key, each mapping-valued field
\* with the three ontology keys under the three suffixed keys.
FlatPairs(d) ==
    {[k |-> d.kv[x].k, v |-> PyStr(d.kv[x].v)] :
        x \in {y \in DOMAIN d.kv : d.kv[y].v.t \notin {"list", "dict"}}}
    \cup UNION {
        {[k |-> d.kv[x].k \o "_term", v |-> PyStr(Item(d.kv[x].v, "annotationValue"))],
         [k |-> d.kv[x].k \o "_term_accession",
          v |-> PyStr(Item(d.kv[x].v, "termAccession"))],
         [k |-> d.kv[x].k \o "_term_source", v |-> PyStr(Item(d.kv[x].v, "termSource"))]} :
        x \in {y \in DOMAIN d.kv :
                  /\ d.kv[y].v.t = "dict"
                  /\ {"termAccession", "termSource", "annotationValue"}
                        \subseteq {d.kv[y].v.kv[z].k : z \in DOMAIN d.kv[y].v.kv}}}

\* The fragment d is anchored: a mapping whose first comment is a mapping
\* that names the namespace.
IsAnchored(d) ==
    /\ d.t = "dict"
    /\ HasKey(d, "comments")
    /\ Item(d, "comments").t = "list"
    /\ Item(d, "comments").items # <<>>
    /\ Item(d, "comments").items[1].t = "dict"
    /\ Get(Item(d, "comments").items[1], "name", JNull) = JStr("omero_annotation_namespace")
    /\ ~IsNone(Get(Item(d, "comments").items[1], "value", JNull))

\* C27: a decode of an anchored fragment does not fail whatever the other
\* fields are, and every annotation it persists maps exactly the keys of the
\* scalar fields, to their stringified values, and the three suffixed keys
\* of each complete ontology field; list-valued fields, 'comments' among
\* them, and mappings lacking one of the three ontology keys give no key.
C27_FlatMapping ==
    pc # <<"decode">> =>
        /\ IsAnchored(data) => pc = <<"done">>
        /\ pc = <<"done">> =>
              /\ \E r \in DOMAIN db : db[r].type = "MapAnnotation"
              /\ \A r \in DOMAIN db : db[r].type = "MapAnnotation" =>
                    /\ {db[r].map[x] : x \in DOMAIN db[r].map} = FlatPairs(data)
                    /\ Len(db[r].map) = Cardinality(FlatPairs(data))

\* C27: an anchored fragment with a scalar field and an ontology sub-object
\* that lacks termAccession was decoded; the annotation has the scalar only.
C27_Witness ==
    /\ pc = <<"done">>
    /\ HasKey(data, "measurementType")
    /\ ~HasKey(Item(data, "measurementType"), "termAccession")
    /\ \E r \in DOMAIN db :
          /\ db[r].type = "MapAnnotation"
          /\ db[r].map = <<[k |-> "title", v |-> "t"]>>


(***************************************************************************)
(* import_rois_from_json on the shape entries of one ROI.                   *)
(***************************************************************************)
MaxShapeEntries == 3   \* most shape entries in the ROI whose shapes vary

\* Shape entries as a ROI file may hold them: the kinds above, a shape of
\* an unknown type that has no plane coordinates, and a line on a plane.
ShapeEntryKinds ==
    ShapeKinds
    \cup {JDict(<<KV("type", JStr("MaskI")), KV("bytes", JStr("00ff"))>>),
          JDict(<<KV("type", JStr("LineI")), KV("z", JNum(1)), KV("t", JNum(0)),
                  KV("c", JNum(2)), KV("x1", JNum(0)), KV("y1", JNum(0)),
                  KV("x2", JNum(3)), KV("y2", JNum(4))>>)}

\* ROI files with one ROI, or with a second one whose only shape is of an
\* unknown type.
ShapeInputs ==
    {JList(<<RoiEntry(1, shs)>> \o more) :
        shs \in SeqsUpTo(ShapeEntryKinds, MaxShapeEntries),
        more \in {<<>>,
                  <<RoiEntry(2, <<JDict(<<KV("type", JStr("MaskI")), KV("z", JNum(1)),
                                          KV("t", JNum(1)), KV("c", JNum(1))>>)>>)>>}}

InitShapes ==
    /\ data \in ShapeInputs
    /\ project_name = JNull
    /\ importer = NoImporter
    /\ assay = JNull
    /\ parent_object = NoObj
    /\ target_image = SavedImage
    /\ ome_project = NoObj
    /\ isa_attributes = <<>>
    /\ pc = <<"import_rois">>
    /\ err = ""
    /\ db = <<SavedImage>>
    /\ calls = <<>>
    /\ project = NoObj
    /\ dataset = NoObj
    /\ i = 0
    /\ j = 0
    /\ k = 0
    /\ investigation = JNull

NextShapes == ImportRois

SpecShapes == InitShapes /\ [][NextShapes]_vars

\* The shape entries of ROI entry x of the file, and those of a known type.
ShapeEntries(x) == Item(data.items[x], "shapes").items
KnownEntries(x) ==
    SelectSeq(ShapeEntries(x), LAMBDA e :
        HasKey(e, "type") /\ PyStr(Item(e, "type")) \in KnownShapeTypes)

\* The plane coordinate an entry gives: 0 when it is null or absent.
GivenCoordinate(e, key) ==
    IF ~HasKey(e, key) THEN 0
    ELSE IF Item(e, key).t = "num" THEN Item(e, key).n ELSE 0

\* The ROIs the import has persisted, in order.
PersistedRois == SelectSeq(db, LAMBDA r : r.type = "Roi")

\* C28: the import of a ROI whose shape entries have their geometry does not
\* fail, and the shapes created for the first ROI have the z, t and c of
\* their entries, 0 where the entry has null or lacks the coordinate.
C28_PlaneCoordinatesDefaultToZero ==
    pc # <<"import_rois">> =>
        /\ pc = <<"done">>
        /\ PersistedRois # <<>>
        /\ Len(PersistedRois[1].shapes) = Len(KnownEntries(1))
        /\ \A x \in 1..Len(KnownEntries(1)) :
              /\ PersistedRois[1].shapes[x].z = GivenCoordinate(KnownEntries(1)[x], "z")
              /\ PersistedRois[1].shapes[x].t = GivenCoordinate(KnownEntries(1)[x], "t")
              /\ PersistedRois[1].shapes[x].c = GivenCoordinate(KnownEntries(1)[x], "c")

\* C28: the import of a ROI with a rectangle that has its geometry but no
\* plane coordinates has failed with KeyError, and no ROI was persisted.
C28_Witness ==
    /\ pc = <<"failed">>
    /\ err = "KeyError"
    /\ Len(ShapeEntries(1)) = 1
    /\ PyStr(Item(ShapeEntries(1)[1], "type")) = "RectangleI"
    /\ ~HasKey(ShapeEntries(1)[1], "z")
    /\ PersistedRois = <<>>

\* C29: the import does not fail on a shape entry of an unknown type; every
\* ROI entry of the file is persisted, also when all its shapes are of
\* unknown types, and holds the shapes of its entries of known types, in
\* the order of the entries.
C29_UnknownShapesAreSkipped ==
    (pc # <<"import_rois">>
        /\ \A x \in DOMAIN data.items : \A y \in DOMAIN KnownEntries(x) :
              \A key \in {"z", "t", "c"} : HasKey(KnownEntries(x)[y], key)) =>
        /\ pc = <<"done">>
        /\ Len(PersistedRois) = Len(data.items)
        /\ \A x \in DOMAIN data.items :
              [y \in DOMAIN PersistedRois[x].shapes |-> PersistedRois[x].shapes[y].type]
                  = [y \in DOMAIN KnownEntries(x) |-> PyStr(Item(KnownEntries(x)[y], "type"))]

\* C29: the import of one ROI whose entries are a line and a shape of an
\* unknown type without plane coordinates has failed with KeyError.
C29_Witness ==
    /\ pc = <<"failed">>
    /\ err = "KeyError"
    /\ Len(data.items) = 1
    /\ Len(ShapeEntries(1)) = 2
    /\ PyStr(Item(ShapeEntries(1)[1], "type")) = "LineI"
    /\ PyStr(Item(ShapeEntries(1)[2], "type")) = "MaskI"
    /\ ~HasKey(ShapeEntries(1)[2], "z")
    /\ PersistedRois = <<>>


\* The annotations stored under the namespace of the config, in order.
AnnotationsUnder(config) ==
    SelectSeq(ome_project.annotations, LAMBDA a : a.ns = config.namespace)

\* The value entry number y of a namespace must hold for the field at
\* position f of the default table: the one its own annotation stores,
\* else the default; null when neither gives one.
OwnValue(config, y, f) ==
    LET own == AnnotationsUnder(config)[y].map
        key == config.default_values[f].k
        at == {z \in DOMAIN own : own[z].k = key}
    IN  IF at = {} THEN config.default_values[f].v
        ELSE JStr(own[CHOOSE z \in at : TRUE].v)

\* C30: once a namespace with several stored annotations has been encoded
\* into one entry per annotation, each entry holds for every field of the
\* default table the value of its own annotation, else the non-null default,
\* and has no field for which neither exists: nothing is carried over from
\* an earlier annotation.
C30_EntriesHoldOwnValues ==
    \A x \in 1..Len(ProjectConfig(ome_project)) :
        LET config == ProjectConfig(ome_project)[x] IN
        (x < i /\ err = "") =>
            \A e \in {z \in 1..Len(isa_attributes) : isa_attributes[z].type = config.type} :
                Len(isa_attributes[e].values) = Len(AnnotationsUnder(config)) =>
                    \A y \in 1..Len(AnnotationsUnder(config)) :
                        \A f \in 1..Len(config.default_values) :
                            LET entry == JDict(isa_attributes[e].values[y])
                                key == config.default_values[f].k IN
                            IF IsNone(OwnValue(config, y, f))
                            THEN ~HasKey(entry, key)
                            ELSE Get(entry, key, JNull) = OwnValue(config, y, f)

\* C30: two publication annotations were encoded, the first storing a doi
\* and the second only a title; the second entry holds the first's doi.
C30_Witness ==
    \E e \in 1..Len(isa_attributes) :
        /\ isa_attributes[e].type = "investigation_publications"
        /\ Len(isa_attributes[e].values) = 2
        /\ Len(ome_project.annotations) = 2
        /\ \A z \in DOMAIN ome_project.annotations[2].map :
              ome_project.annotations[2].map[z].k = "title"
        /\ Get(JDict(isa_attributes[e].values[2]), "doi", JNull) = JStr("10.1/x")
        /\ Get(JDict(isa_attributes[e].values[2]), "title", JNull) = JStr("A paper")

====
